---- MODULE Spec2Model ----
(***************************************************************************)
(* Model of the Meshtastic listener's packet handler                       *)
(* (src/meshtastic_listener/listener.py): packet fingerprinting and the    *)
(* deduplication window, the port filter, text extraction, sent/received   *)
(* time reconciliation and the append-only message log.                    *)
(* The pinger side (src/meshtastic_pinger) is modelled by its message      *)
(* codec, send_fix and the acquire-send-sleep loop of _run_loop.           *)
(*                                                                         *)
(* Strings are modelled as sequences of tokens (a word, a whitespace run,  *)
(* a "tx=<epoch>" tag, an "HH:MM:SS" token, ...), so that strip(), split() *)
(* and the regular-expression search of the source are computed on the     *)
(* text instead of being assumed.  Times are integer ticks.                *)
(***************************************************************************)
EXTENDS Integers, Sequences, FiniteSets, TLC

(***************************************************************************)
(* Bounds of the model.                                                    *)
(***************************************************************************)
\* deque(maxlen=200) of listener.py:177, scaled down so that the window
\* fills up and overflows within a few packets.
maxlen == 2
\* Largest wall-clock reading (epoch ticks) the handler observes.
MaxNow == 4
\* Length of a calendar day in ticks (86400 s, scaled down).
DayLen == 3
\* Offset of the listener's local time zone from UTC, in ticks.
UtcOffset == 1

\* Number of packet identifiers: enough to overflow the window and come back.
NumIds == maxlen + 2
\* Number of handler invocations explored in the sequential specification.
MaxHandled == maxlen + 2
\* Largest epoch datetime.fromtimestamp() converts; beyond it the call raises.
MaxTimestamp == MaxNow + 2

(***************************************************************************)
(* Text: a Python str is a sequence of tokens.                             *)
(***************************************************************************)
W(n) == [k |-> "w", v |-> n]          \* an ordinary word
WS == [k |-> "ws", v |-> 0]           \* a run of blanks
NL == [k |-> "nl", v |-> 0]           \* a newline character
TX(e) == [k |-> "tx", v |-> e]        \* the word "tx=<e>"
HMS(tod) == [k |-> "hms", v |-> tod]  \* an 8-character "HH:MM:SS" word
BAD == [k |-> "bad", v |-> 0]         \* a byte sequence that is not UTF-8
FFFD == [k |-> "fffd", v |-> 0]       \* U+FFFD, the replacement character
BQ == [k |-> "b'", v |-> 0]           \* opening of a bytes repr
EQ == [k |-> "'", v |-> 0]            \* closing of a bytes repr

\* str.strip() leaves nothing: the text is empty or whitespace only
IsBlank(t) == \A i \in DOMAIN t : t[i].k \in {"ws", "nl"}

\* str.split(): the words of the text
Words(t) == SelectSeq(t, LAMBDA tok : tok.k \notin {"ws", "nl"})

\* bytes.decode("utf-8", errors="replace")
decode_utf8(t) == [i \in DOMAIN t |-> IF t[i].k = "bad" THEN FFFD ELSE t[i]]

\* str(b"...") == "b'...'"
repr_bytes(t) == <<BQ>> \o t \o <<EQ>>

(***************************************************************************)
(* Values found in a packet.                                               *)
(*   Leaf : None, str or bytes                                             *)
(*   Val  : None, str, bytes or a dict with text/payload/data keys         *)
(*   TS   : a sent-time metadata value                                     *)
(***************************************************************************)
NoneLeaf == [k |-> "none", t |-> << >>]
Str(t) == [k |-> "str", t |-> t]
Bytes(t) == [k |-> "bytes", t |-> t]

NoneVal == [k |-> "none", t |-> << >>, text |-> NoneLeaf, payload |-> NoneLeaf, data |-> NoneLeaf, okkeys |-> TRUE]
StrVal(t) == [NoneVal EXCEPT !.k = "str", !.t = t]
BytesVal(t) == [NoneVal EXCEPT !.k = "bytes", !.t = t]
DictVal(text, payload, data) == [NoneVal EXCEPT !.k = "dict", !.text = text, !.payload = payload, !.data = data]
\* a dict one of whose keys is not a str (json.dumps refuses it)
BadKeyDictVal(text) == [NoneVal EXCEPT !.k = "dict", !.text = text, !.okkeys = FALSE]

NoTS == [k |-> "none", v |-> 0]
NumTS(e) == [k |-> "num", v |-> e]        \* int or float epoch
DigitsTS(e) == [k |-> "digits", v |-> e]  \* str of decimal digits
IsoTS(t) == [k |-> "iso", v |-> t]        \* ISO-8601 without UTC offset
IsoTzTS(t) == [k |-> "isotz", v |-> t]    \* ISO-8601 with a UTC offset
JunkTS == [k |-> "junk", v |-> 0]         \* text that is no timestamp
BlankTS == [k |-> "blank", v |-> 0]       \* whitespace-only text

NoPort == "None"
Ports == {NoPort, "TEXT_MESSAGE_APP", "text_message_app", "POSITION_APP"}

\* str(portnum).upper()
upper(p) == IF p = "text_message_app" THEN "TEXT_MESSAGE_APP" ELSE p

NoId == 0

\* packet["decoded"] when it is no dict: the handler substitutes {}
EmptyDecoded == [k |-> "none", t |-> << >>, portnum |-> NoPort, text |-> NoneLeaf, payload |-> NoneVal, data |-> NoneVal, timestamp |-> NoTS, time |-> NoTS]
DecodedDict(portnum, text, payload, data, timestamp, time) == [k |-> "dict", t |-> << >>, portnum |-> portnum, text |-> text, payload |-> payload, data |-> data, timestamp |-> timestamp, time |-> time]
DecodedStr(t) == [EmptyDecoded EXCEPT !.k = "str", !.t = t]
DecodedBytes(t) == [EmptyDecoded EXCEPT !.k = "bytes", !.t = t]

Packet(id, decoded, payload, data, timestamp) == [id |-> id, from |-> 1, to |-> 2, decoded |-> decoded, payload |-> payload, data |-> data, timestamp |-> timestamp]

(***************************************************************************)
(* Python truthiness.                                                      *)
(***************************************************************************)
\* bool(x) of a Leaf or Val
Truthy(x) ==
  CASE x.k \in {"str", "bytes"} -> Len(x.t) > 0
    [] x.k = "dict" -> x.text.k # "none" \/ x.payload.k # "none" \/ x.data.k # "none" \/ ~x.okkeys
    [] OTHER -> FALSE

\* bool(decoded_dict): a dict with at least one key
DecodedTruthy(d) ==
  /\ d.k = "dict"
  /\ \/ d.portnum # NoPort
     \/ d.text.k # "none"
     \/ d.payload.k # "none"
     \/ d.data.k # "none"
     \/ d.timestamp.k # "none"
     \/ d.time.k # "none"

\* bool(raw) of a sent-time metadata value
TruthyTS(ts) ==
  CASE ts.k = "none" -> FALSE
    [] ts.k = "num" -> ts.v # 0
    [] OTHER -> TRUE

\* a or b
Or(a, b) == IF Truthy(a) THEN a ELSE b
OrTS(a, b) == IF TruthyTS(a) THEN a ELSE b

(***************************************************************************)
(* _extract_message_text (listener.py:36-80).  A result is an optional     *)
(* text: [some |-> FALSE] is None.                                         *)
(***************************************************************************)
NoneText == [some |-> FALSE, t |-> << >>]
Some(t) == [some |-> TRUE, t |-> t]
TruthyText(m) == m.some /\ Len(m.t) > 0

\* str(value) of a Leaf that is not None
str(x) == IF x.k = "bytes" THEN repr_bytes(x.t) ELSE x.t

\* _decode_payload (listener.py:41-53); value is a Leaf, a Val or the decoded area
decode_payload(value) ==
  CASE value.k = "bytes" -> Some(decode_utf8(value.t))
    [] value.k = "str" -> Some(value.t)
    [] value.k = "dict" ->
         IF value.text.k # "none"
         THEN Some(str(value.text))
         ELSE LET nested_payload == Or(value.payload, value.data)
              IN IF nested_payload.k = "bytes"
                 THEN Some(decode_utf8(nested_payload.t))
                 ELSE NoneText
    [] OTHER -> NoneText

\* a faulty extraction that prefers the packet's top-level payload
extract_message_text_top_first(packet) ==
  LET decoded == packet.decoded
      direct_message == decode_payload(decoded)
      fallback == decode_payload(Or(packet.payload, packet.data))
  IN IF TruthyText(fallback) THEN fallback
     ELSE IF TruthyText(direct_message) THEN direct_message
     ELSE IF DecodedTruthy(decoded) /\ decoded.text.k # "none" THEN Some(str(decoded.text))
     ELSE decode_payload(Or(decoded.payload, decoded.data))

extract_message_text(packet) ==
  LET decoded == packet.decoded
      direct_message == decode_payload(decoded)
      payload == Or(decoded.payload, decoded.data)
      message1 == decode_payload(payload)
      message2 == decode_payload(decoded.payload)
      fallback == decode_payload(Or(packet.payload, packet.data))
  IN IF TruthyText(direct_message) THEN direct_message
     ELSE IF DecodedTruthy(decoded)
          THEN IF decoded.text.k # "none" THEN Some(str(decoded.text))
               ELSE IF TruthyText(message1) THEN message1
               ELSE IF TruthyText(message2) THEN message2
               ELSE fallback
          ELSE fallback

(***************************************************************************)
(* Timestamps.  A datetime is [aware, t]: t is the wall-clock reading, and *)
(* aware tells whether it carries a UTC offset.                            *)
(***************************************************************************)
NoDt == [some |-> FALSE, aware |-> FALSE, t |-> 0]
Dt(aware, t) == [some |-> TRUE, aware |-> aware, t |-> t]

\* datetime.fromtimestamp(e) raises outside the supported range
InRange(e) == e >= 0 /\ e <= MaxTimestamp
fromtimestamp(e) == Dt(FALSE, e + UtcOffset)

\* datetime.isoformat(); "n/a" when there is no datetime
NA == [k |-> "n/a", aware |-> FALSE, t |-> 0]
isoformat(dt) == [k |-> "iso", aware |-> dt.aware, t |-> dt.t]

\* _parse_sent_time (listener.py:100-119)
parse_sent_time(raw) ==
  CASE raw.k = "none" -> NoDt
    [] raw.k \in {"num", "digits"} -> IF InRange(raw.v) THEN fromtimestamp(raw.v) ELSE NoDt
    [] raw.k = "iso" -> Dt(FALSE, raw.v)
    [] raw.k = "isotz" -> Dt(TRUE, raw.v)
    [] OTHER -> NoDt

\* _parse_time_from_message_tail (listener.py:121-133)
parse_time_from_message_tail(message, received_at) ==
  LET parts == Words(message)
      tail == parts[Len(parts)]
  IN IF Len(parts) = 0 THEN NoDt
     ELSE IF tail.k # "hms" THEN NoDt
     ELSE IF tail.v >= DayLen THEN NoDt
     ELSE Dt(received_at.aware, (received_at.t \div DayLen) * DayLen + tail.v)

\* _parse_tx_epoch (listener.py:135-143): the first tx= tag of the text
parse_tx_epoch(message) ==
  LET tags == SelectSeq(message, LAMBDA tok : tok.k = "tx")
  IN IF Len(tags) = 0 THEN [some |-> FALSE, v |-> 0] ELSE [some |-> TRUE, v |-> tags[1].v]

Max(a, b) == IF a >= b THEN a ELSE b
Abs(a) == IF a >= 0 THEN a ELSE -a

\* Faulty variant: the tx= delay is not floored at zero
tx_delay_signed(received_epoch, tx_epoch) == received_epoch - tx_epoch

\* max(0.0, received_epoch - tx_epoch) (listener.py:259)
tx_delay(received_epoch, tx_epoch) == Max(0, received_epoch - tx_epoch)

\* abs((received_dt - sent_dt).total_seconds()) (listener.py:263)
dt_delay(received_dt, sent_dt) == Abs(received_dt.t - sent_dt.t)

\* a faulty delay label: "n/a" whatever the delay
delay_label_dropped(d) == [k |-> "n/a", v |-> 0]

NoDelay == [k |-> "n/a", v |-> 0]
Delay(d) == [k |-> "num", v |-> d]

\* Sent-time metadata of the packet (listener.py:256)
sent_raw_of(packet, decoded) == OrTS(OrTS(decoded.timestamp, decoded.time), packet.timestamp)

\* Faulty variant: the packet's metadata and the trailing time token are tried before
\* the tx= tag
reconcile_metadata_first(packet, decoded, message, received_epoch) ==
  LET received_dt == fromtimestamp(received_epoch)
      tx_epoch == parse_tx_epoch(message)
      parsed == parse_sent_time(sent_raw_of(packet, decoded))
      sent_dt == IF parsed.some THEN parsed ELSE parse_time_from_message_tail(message, received_dt)
  IN IF sent_dt.some
     THEN IF sent_dt.aware # received_dt.aware
          THEN [raised |-> TRUE, sent_dt |-> sent_dt, delay |-> NoDelay]
          ELSE [raised |-> FALSE, sent_dt |-> sent_dt, delay |-> Delay(dt_delay(received_dt, sent_dt))]
     ELSE IF ~tx_epoch.some
          THEN [raised |-> FALSE, sent_dt |-> NoDt, delay |-> NoDelay]
          ELSE IF InRange(tx_epoch.v)
               THEN [raised |-> FALSE, sent_dt |-> fromtimestamp(tx_epoch.v), delay |-> Delay(tx_delay(received_epoch, tx_epoch.v))]
               ELSE [raised |-> TRUE, sent_dt |-> NoDt, delay |-> NoDelay]

\* listener.py:251-267: raised is TRUE when the code raises before writing
reconcile(packet, decoded, message, received_epoch) ==
  LET received_dt == fromtimestamp(received_epoch)
      tx_epoch == parse_tx_epoch(message)
      sent_raw == sent_raw_of(packet, decoded)
      parsed == parse_sent_time(sent_raw)
      sent_dt == IF parsed.some THEN parsed ELSE parse_time_from_message_tail(message, received_dt)
  IN IF tx_epoch.some
     THEN IF InRange(tx_epoch.v)
          THEN [raised |-> FALSE, sent_dt |-> fromtimestamp(tx_epoch.v), delay |-> Delay(tx_delay(received_epoch, tx_epoch.v))]
          ELSE [raised |-> TRUE, sent_dt |-> NoDt, delay |-> NoDelay]
     ELSE IF ~sent_dt.some
          THEN [raised |-> FALSE, sent_dt |-> NoDt, delay |-> NoDelay]
          ELSE IF sent_dt.aware # received_dt.aware
               THEN [raised |-> TRUE, sent_dt |-> sent_dt, delay |-> NoDelay]
               ELSE [raised |-> FALSE, sent_dt |-> sent_dt, delay |-> Delay(dt_delay(received_dt, sent_dt))]

\* The line appended to the main log (listener.py:276-279)
LogEntry(message, sent_dt, received_dt, delay) ==
  [message |-> message,
   sent_at |-> IF sent_dt.some THEN isoformat(sent_dt) ELSE NA,
   received_at |-> isoformat(received_dt),
   delay_s |-> delay]

\* The text of the line: the f-string of listener.py:278
Lit(name) == [k |-> name, v |-> 0]
time_label(x) == [k |-> IF x.k = "iso" /\ x.aware THEN "isotz" ELSE x.k, v |-> x.t]
format_entry(entry) ==
  <<Lit("message: ")>> \o entry.message
  \o <<Lit(" | sent_at: "), time_label(entry.sent_at),
       Lit(" | received_at: "), time_label(entry.received_at),
       Lit(" | delay_s: "), entry.delay_s>>

(***************************************************************************)
(* The log store.  A file is the sequence of the characters written to it. *)
(***************************************************************************)
\* str.rstrip("\n")
RECURSIVE rstrip_nl(_)
rstrip_nl(text) ==
  IF text # << >> /\ text[Len(text)].k = "nl"
  THEN rstrip_nl(SubSeq(text, 1, Len(text) - 1))
  ELSE text

\* Faulty variant: the text is written as it is, a newline is added only
\* when it does not end with one
append_line_keep_newlines(content, message) ==
  IF message # << >> /\ message[Len(message)].k = "nl"
  THEN content \o message
  ELSE content \o message \o <<NL>>

\* _append_line (listener.py:82-85): file.write(message.rstrip("\n") + "\n")
\* on a file opened for append
append_line(content, message) == content \o rstrip_nl(message) \o <<NL>>

\* The lines of a file: the number of newline characters (every write ends
\* with one)
line_count(content) == Len(SelectSeq(content, LAMBDA tok : tok.k = "nl"))

(***************************************************************************)
(* Fingerprint and deduplication window.                                   *)
(***************************************************************************)
\* packet.get("decoded") if it is a dict, else {} (listener.py:214, 358)
decoded_of(packet) == IF packet.decoded.k = "dict" THEN packet.decoded ELSE EmptyDecoded

\* json.dumps(..., default=str) of one element of the key
json_leaf(x) == IF x.k = "bytes" THEN Str(repr_bytes(x.t)) ELSE x
json_val(x) ==
  CASE x.k = "bytes" -> StrVal(repr_bytes(x.t))
    [] x.k = "dict" -> [x EXCEPT !.text = json_leaf(x.text), !.payload = json_leaf(x.payload), !.data = json_leaf(x.data)]
    [] OTHER -> x

\* json.dumps raises on a dict with a non-str key
key_builds(packet) == LET d == decoded_of(packet) IN ~(d.payload.k = "dict" /\ ~d.payload.okkeys)

\* json.dumps(_sanitize_for_log(packet)) succeeds (listener.py:240)
json_dumps_ok(packet) ==
  LET bad(x) == x.k = "dict" /\ ~x.okkeys
  IN ~(bad(packet.payload) \/ bad(packet.data) \/ bad(packet.decoded.payload) \/ bad(packet.decoded.data))

\* Faulty variant: a failure of the trace write leaves the handler
write_raw_trace_unguarded(lines, packet, fails) ==
  [raised |-> fails \/ ~json_dumps_ok(packet),
   lines |-> IF ~fails /\ json_dumps_ok(packet) THEN Append(lines, packet) ELSE lines]

\* The guarded write of the raw-packet trace (listener.py:238-242): the
\* record is appended unless json.dumps or the write fails, and the except
\* clause keeps any failure inside
write_raw_trace(lines, packet, fails) ==
  [raised |-> FALSE,
   lines |-> IF ~fails /\ json_dumps_ok(packet) THEN Append(lines, packet) ELSE lines]

\* Faulty variant: a failure of the append to the main log is swallowed
write_log_swallowed(content, text, fails) ==
  [raised |-> FALSE, content |-> IF fails THEN content ELSE append_line(content, text)]

\* The unguarded append to the main log (listener.py:276-279): an OSError of
\* _append_line leaves the handler
write_log(content, text, fails) ==
  [raised |-> fails, content |-> IF fails THEN content ELSE append_line(content, text)]

\* _packet_key (listener.py:356-368)
packet_key(packet) ==
  LET decoded == decoded_of(packet)
  IN <<packet.id, packet.from, packet.to, decoded.portnum, json_leaf(decoded.text), json_val(decoded.payload)>>

\* deque.append on a deque(maxlen=...): a full deque drops its left end
deque_append(queue, key) == IF Len(queue) >= maxlen THEN Append(Tail(queue), key) ELSE Append(queue, key)

\* the while loop of _remember_packet (listener.py:373-375)
RECURSIVE evict(_, _)
evict(keys, queue) ==
  IF Len(queue) > maxlen
  THEN evict(keys \ {Head(queue)}, Tail(queue))
  ELSE [keys |-> keys, queue |-> queue]

\* set.add (listener.py:371)
add_key(keys, key) == keys \cup {key}

\* Faulty variant: the fingerprint is queued but never added to the membership set
remember_packet_not_added(keys, queue, key) == evict(keys, deque_append(queue, key))

\* _remember_packet (listener.py:370-375)
remember_packet(keys, queue, key) == evict(add_key(keys, key), deque_append(queue, key))

\* Faulty variant: the comparison with the text-message classifier is inverted
not_text_port_inverted(portnum) == portnum # NoPort /\ upper(portnum) = "TEXT_MESSAGE_APP"

\* the port filter (listener.py:229)
not_text_port(portnum) == portnum # NoPort /\ upper(portnum) # "TEXT_MESSAGE_APP"

\* Faulty variant: the text is tested for emptiness without being stripped
no_message_unstripped(message) == ~TruthyText(message)

\* the blank-text test (listener.py:244)
no_message(message) == ~TruthyText(message) \/ IsBlank(message.t)

(***************************************************************************)
(* Pinger: the message codec (src/meshtastic_pinger/radio.py).             *)
(*                                                                         *)
(* A template is a sequence of elements, each a literal token or a         *)
(* replacement field {name:spec}; every element renders to one token of    *)
(* the message.  Fields stand between blanks, so that a rendered value is  *)
(* a word of the message.                                                  *)
(***************************************************************************)
\* An Optional[float] / Optional[int]
None == [some |-> FALSE, v |-> 0]
Just(x) == [some |-> TRUE, v |-> x]

\* GpsFix (gps.py:19-26); timestamp is an aware UTC datetime, in ticks
GpsFix(lat, lon, timestamp, hdop, satellites, fix_quality) ==
  [lat |-> lat, lon |-> lon, timestamp |-> timestamp, hdop |-> hdop,
   satellites |-> satellites, fix_quality |-> fix_quality]

\* Values of the payload: the type decides which format specifiers apply,
\* tok is the word str() renders
FloatOf(x) == [type |-> "float", tok |-> [k |-> "float", v |-> x]]
IntOf(n) == [type |-> "int", tok |-> [k |-> "int", v |-> n]]
StrOf(tok) == [type |-> "str", tok |-> tok]

\* Faulty variant: the placeholder is an ordinary str
PLAIN_UNAVAILABLE == StrOf([k |-> "n/a", v |-> 0])

\* _UNAVAILABLE = _SafeUnavailable("n/a") (radio.py:17-24)
UNAVAILABLE == [type |-> "unavailable", tok |-> [k |-> "n/a", v |-> 0]]

\* Elements of a template
TLit(tok) == [k |-> "lit", tok |-> tok, name |-> "", spec |-> ""]
Field(name, spec) == [k |-> "field", tok |-> WS, name |-> name, spec |-> spec]

\* format(value, spec) for the specifiers "", ".1f" and "d": int and float
\* take ".1f", only int takes "d", a str takes neither, and
\* _SafeUnavailable.__format__ ignores the specifier
format_value(value, spec) ==
  CASE value.type = "unavailable" -> [ok |-> TRUE, tok |-> value.tok]
    [] spec = "" -> [ok |-> TRUE, tok |-> value.tok]
    [] spec = ".1f" /\ value.type \in {"float", "int"} -> [ok |-> TRUE, tok |-> [k |-> "fixed", v |-> value.tok.v]]
    [] spec = "d" /\ value.type = "int" -> [ok |-> TRUE, tok |-> value.tok]
    [] OTHER -> [ok |-> FALSE, tok |-> value.tok]

\* The fix-derived payload (radio.py:41-51)
fix_payload(fix) ==
  [lat |-> FloatOf(fix.lat),
   lon |-> FloatOf(fix.lon),
   hdop |-> IF fix.hdop.some THEN FloatOf(fix.hdop.v) ELSE FloatOf(0),
   satellites |-> IF fix.satellites.some THEN IntOf(fix.satellites.v) ELSE IntOf(0),
   fix_quality |-> IF fix.fix_quality.some THEN IntOf(fix.fix_quality.v) ELSE IntOf(0),
   timestamp |-> StrOf([k |-> "isotz", v |-> fix.timestamp]),
   iso |-> StrOf([k |-> "isotz", v |-> fix.timestamp]),
   time |-> StrOf(HMS(fix.timestamp % DayLen)),
   date |-> StrOf([k |-> "date", v |-> fix.timestamp \div DayLen])]

\* Result of rendering: the text, or the error raised and the key it names
Rendered(text) == [ok |-> TRUE, text |-> text, error |-> "", key |-> ""]
RenderError(error, key) == [ok |-> FALSE, text |-> << >>, error |-> error, key |-> key]

\* template.format(**payload) (radio.py:55): the fields are rendered from
\* left to right, the first that fails raises KeyError (unknown name) or
\* ValueError (specifier the value does not take)
str_format(template, payload) ==
  LET known(i) == template[i].name \in DOMAIN payload
      fails(i) == template[i].k = "field"
                  /\ (~known(i) \/ ~format_value(payload[template[i].name], template[i].spec).ok)
      failing == {i \in DOMAIN template : fails(i)}
      first == CHOOSE i \in failing : \A j \in failing : i <= j
      render(i) == IF template[i].k = "lit" THEN template[i].tok
                   ELSE format_value(payload[template[i].name], template[i].spec).tok
  IN IF failing = {} THEN Rendered([i \in DOMAIN template |-> render(i)])
     ELSE IF ~known(first) THEN RenderError("KeyError", template[first].name)
     ELSE RenderError("ValueError", "")

\* Faulty variant: a field of unknown name is left out of the message
build_message_lenient(template, fix, extra) ==
  LET payload == extra @@ fix_payload(fix)
  IN str_format(SelectSeq(template, LAMBDA e : e.k = "lit" \/ e.name \in DOMAIN payload), payload)

\* build_message (radio.py:38-58): a KeyError becomes a ValueError whose
\* message names the missing key
build_message(template, fix, extra) ==
  LET r == str_format(template, extra @@ fix_payload(fix))
  IN IF ~r.ok /\ r.error = "KeyError" THEN RenderError("ValueError", r.key) ELSE r

\* extras["snr"], extras["radio_snr"] (radio.py:208-216)
extras(signal, radio_signal) ==
  [snr |-> IF signal.some THEN FloatOf(signal.v) ELSE UNAVAILABLE,
   radio_snr |-> IF radio_signal.some THEN FloatOf(radio_signal.v) ELSE UNAVAILABLE]

\* send_fix (radio.py:207-224): the outcome and the text handed to
\* sendText; sendFails is a failure of the radio link
send_fix(fix, template, signal, radio_signal, sendFails) ==
  LET message == build_message(template, fix, extras(signal, radio_signal))
  IN IF ~message.ok THEN [outcome |-> "raised", error |-> message.error, key |-> message.key, text |-> << >>]
     ELSE IF sendFails THEN [outcome |-> "raised", error |-> "sendText", key |-> "", text |-> << >>]
     ELSE [outcome |-> "sent", error |-> "", key |-> "", text |-> message.text]

(***************************************************************************)
(* The mapper's parser (meshtastic_mapper/parser.py).  Further words of a  *)
(* message text:                                                           *)
(***************************************************************************)
GPS(c) == [k |-> "gps", v |-> c]          \* the words "GPS <c>.5,-<c>.5"
GPSINT == [k |-> "gpsint", v |-> 0]       \* the words "GPS 7,8": no decimals
SENT_AT == [k |-> "sent_at:", v |-> 0]    \* the word "sent_at:"
ISO(t) == [k |-> "iso", v |-> t]          \* an ISO-8601 time without UTC offset

\* str.strip()
strip(text) ==
  LET solid == {i \in DOMAIN text : text[i].k \notin {"ws", "nl"}}
  IN IF solid = {} THEN << >>
     ELSE SubSeq(text, CHOOSE i \in solid : \A j \in solid : i <= j,
                       CHOOSE i \in solid : \A j \in solid : i >= j)

\* the token holds the character "|"
HasPipe(tok) == tok.k \in {" | sent_at: ", " | received_at: ", " | delay_s: "}

\* re.search(name + r":\s+([^|]+)", line): group 1 of the first match, as an
\* optional text.  The label written by the listener ends in a blank; the
\* bare word name + ":" matches when blanks follow it.
field_search(line, name) ==
  LET written == " | " \o name \o ": "
      word == name \o ":"
      capture(i) ==
        LET from == IF line[i].k = written THEN i + 1 ELSE i + 2
            stops == {j \in from..Len(line) : HasPipe(line[j])}
            upto == IF stops = {} THEN Len(line) ELSE (CHOOSE j \in stops : \A l \in stops : j <= l) - 1
        IN SubSeq(line, from, upto)
      matches == {i \in DOMAIN line :
                    /\ \/ line[i].k = written
                       \/ line[i].k = word /\ i < Len(line) /\ line[i + 1].k \in {"ws", "nl"}
                    /\ capture(i) # << >>}
  IN IF matches = {} THEN NoneText
     ELSE Some(capture(CHOOSE i \in matches : \A j \in matches : i <= j))

\* _parse_iso_datetime (parser.py:33-41)
parse_iso_datetime(text) ==
  LET s == strip(text)
  IN IF Len(s) = 1 /\ s[1].k \in {"iso", "isotz"} THEN Dt(s[1].k = "isotz", s[1].v) ELSE NoDt

\* _parse_float (parser.py:44-51)
parse_float(value) ==
  LET s == strip(value)
  IN IF Len(s) = 1 /\ s[1].k = "num" THEN Just(s[1].v) ELSE None

\* GpsMessage (parser.py:19-30); raw_message is left out
GpsMessage(lat, lon, sent_at, received_at, delay_seconds, satellites, hdop) ==
  [lat |-> lat, lon |-> lon, sent_at |-> sent_at, received_at |-> received_at,
   delay_seconds |-> delay_seconds, satellites |-> satellites, hdop |-> hdop]

NoMessage == [some |-> FALSE, msg |-> GpsMessage(0, 0, NoDt, NoDt, None, None, None)]

\* parse_message_line (parser.py:64-105).  No text of the model holds the
\* words "sats <n>" or "hdop <f>": satellites and hdop are None.
parse_message_line(line) ==
  LET s == strip(line)
      gps_match == SelectSeq(s, LAMBDA tok : tok.k = "gps")
      sent_match == field_search(s, "sent_at")
      received_match == field_search(s, "received_at")
      delay_match == field_search(s, "delay_s")
  IN IF s = << >> \/ s[1].k # "message: " THEN NoMessage
     ELSE IF gps_match = << >> THEN NoMessage
     ELSE [some |-> TRUE,
           msg |-> GpsMessage(gps_match[1].v, -gps_match[1].v,
                              IF sent_match.some THEN parse_iso_datetime(sent_match.t) ELSE NoDt,
                              IF received_match.some THEN parse_iso_datetime(received_match.t) ELSE NoDt,
                              IF delay_match.some THEN parse_float(delay_match.t) ELSE None,
                              None, None)]

\* iteration over the lines of a text file: each line ends with its newline
RECURSIVE file_lines(_)
file_lines(content) ==
  IF content = << >> THEN << >>
  ELSE LET ends == {i \in DOMAIN content : content[i].k = "nl"}
           n == IF ends = {} THEN Len(content) ELSE CHOOSE i \in ends : \A j \in ends : i <= j
       IN <<SubSeq(content, 1, n)>> \o file_lines(SubSeq(content, n + 1, Len(content)))

\* parse_messages_file (parser.py:108-121) on an existing file
RECURSIVE parse_lines(_)
parse_lines(lines) ==
  IF lines = << >> THEN << >>
  ELSE LET message == parse_message_line(Head(lines))
       IN (IF message.some THEN <<message.msg>> ELSE << >>) \o parse_lines(Tail(lines))

parse_messages_file(content) == parse_lines(file_lines(content))

(***************************************************************************)
(* State.                                                                  *)
(***************************************************************************)
VARIABLES
  recent_keys,      \* self._recent_keys
  recent_queue,     \* self._recent_queue
  log,              \* the LogEntries written to output_path, oldest first
  output,           \* the content of the file at output_path
  appends,          \* the texts _append_line was given and wrote to output_path
  rawlog,           \* lines of raw_packet_path
  raw_packet_path,  \* whether a raw-packet trace path is configured
  clock,            \* last wall-clock reading
  calls,            \* the completed handler invocations, in order of completion
  pc,               \* per transport thread: where its handler invocation stands
  cur,              \* per transport thread: the packet it is handling
  sent,             \* pinger: the text last handed to sendText, if any
  last_send,        \* pinger: the latest invocation of send_fix
  config,           \* pinger: message_template and send_interval_seconds
  loop_pc,          \* pinger: where _run_loop stands
  loop_fix,         \* pinger: the variable fix of _run_loop
  events,           \* pinger: the latest events of _run_loop, oldest first
  messages,         \* mapper: what parse_messages_file returned, once called
  start_pc,         \* listener: where start() stands
  caller,           \* listener: start() is called directly, or by main() in a with block
  interface,        \* listener: the transport interface: "none", "open" or "closed"
  pubsub_unsub,     \* listener: the topics self._pubsub_unsub unsubscribes
  subscriptions,    \* listener: the topics the handler is subscribed to
  stop_event,       \* listener: the stop event is set
  run_pc,           \* pinger: where _run_loop stands
  radio_mode,       \* pinger: config.radio_mode
  gps_serial,       \* pinger: the GPS serial port: "none", "open" or "closed"
  radio_interface,  \* pinger: the radio's SerialInterface: "none", "open" or "closed"
  nmea              \* pinger: the latest call of parse_nmea_sentence

listenerVars == <<recent_keys, recent_queue, log, output, appends, rawlog, raw_packet_path, clock, calls, pc, cur>>
pingerVars == <<sent, last_send, config, loop_pc, loop_fix, events>>
mapperVars == <<messages>>
lifecycleVars == <<start_pc, caller, interface, pubsub_unsub, subscriptions, stop_event>>
resourceVars == <<run_pc, radio_mode, gps_serial, radio_interface>>
gpsVars == <<nmea>>
otherVars == <<mapperVars, lifecycleVars, resourceVars, gpsVars>>
exceptMapper == <<listenerVars, pingerVars, lifecycleVars, resourceVars, gpsVars>>
exceptLifecycle == <<listenerVars, pingerVars, mapperVars, resourceVars, gpsVars>>
exceptResource == <<listenerVars, pingerVars, mapperVars, lifecycleVars, gpsVars>>
exceptGps == <<listenerVars, pingerVars, mapperVars, lifecycleVars, resourceVars>>
vars == <<listenerVars, pingerVars, otherVars>>

\* The two delivery paths of start() (listener.py:382-383)
Threads == {"onReceive", "pubsub"}

\* The fingerprint of a packet, or the mark that none could be built
KeyTag(packet) == IF key_builds(packet) THEN <<"key", packet_key(packet)>> ELSE <<"nokey">>

\* Record of one completed invocation; lines is the length of the main log
\* when the invocation returned or raised.
Call(packet, now, rawFails, logFails, outcome, lines) ==
  [packet |-> packet, now |-> now, key |-> KeyTag(packet), rawFails |-> rawFails,
   logFails |-> logFails, outcome |-> outcome, lines |-> lines]

(***************************************************************************)
(* _on_receive (listener.py:205-279).                                      *)
(*   rawFails : the write to the raw-packet trace fails                    *)
(*   logFails : the write to the main log fails                            *)
(* Outcomes: "duplicate", "filtered", "notext" (silent returns), "logged", *)
(* "raised" (an exception leaves the handler).                             *)
(***************************************************************************)
\* listener.py:220-222
ReturnDuplicate(packet, now) ==
  /\ calls' = Append(calls, Call(packet, now, FALSE, FALSE, "duplicate", Len(log)))
  /\ UNCHANGED <<log, output, appends, rawlog>>

\* listener.py:229-231
ReturnFiltered(packet, now) ==
  /\ calls' = Append(calls, Call(packet, now, FALSE, FALSE, "filtered", Len(log)))
  /\ UNCHANGED <<log, output, appends, rawlog>>

\* listener.py:233-279
LogMessage(packet, now, rawFails, logFails) ==
  LET decoded == decoded_of(packet)
      message == extract_message_text(packet)
      trace == IF raw_packet_path THEN write_raw_trace(rawlog, packet, rawFails)
               ELSE [raised |-> FALSE, lines |-> rawlog]
      r == reconcile(packet, decoded, message.t, now)
      entry == LogEntry(message.t, r.sent_dt, fromtimestamp(now), r.delay)
      written == write_log(output, format_entry(entry), logFails)
  IN /\ rawlog' = trace.lines
     /\ IF trace.raised
        THEN /\ calls' = Append(calls, Call(packet, now, rawFails, logFails, "raised", Len(log)))
             /\ UNCHANGED <<log, output, appends>>
        ELSE IF no_message(message)
        THEN /\ calls' = Append(calls, Call(packet, now, rawFails, logFails, "notext", Len(log)))
             /\ UNCHANGED <<log, output, appends>>
        ELSE IF r.raised
        THEN /\ calls' = Append(calls, Call(packet, now, rawFails, logFails, "raised", Len(log)))
             /\ UNCHANGED <<log, output, appends>>
        ELSE IF written.raised
        THEN /\ calls' = Append(calls, Call(packet, now, rawFails, logFails, "raised", Len(log)))
             /\ UNCHANGED <<log, output, appends>>
        ELSE /\ calls' = Append(calls, Call(packet, now, rawFails, logFails, "logged", Len(log) + 1))
             /\ appends' = Append(appends, format_entry(entry))
             /\ output' = written.content
             /\ log' = Append(log, entry)

\* The whole handler as one step: the transport delivers packets one at a time
OnReceive(packet, now, rawFails, logFails) ==
  LET portnum == decoded_of(packet).portnum
      keyed == key_builds(packet)
      key == packet_key(packet)
      remembered == IF keyed THEN remember_packet(recent_keys, recent_queue, key)
                    ELSE [keys |-> recent_keys, queue |-> recent_queue]
  IN /\ clock' = now
     /\ UNCHANGED <<raw_packet_path, pc, cur>>
     /\ IF keyed /\ key \in recent_keys
        THEN /\ ReturnDuplicate(packet, now)
             /\ UNCHANGED <<recent_keys, recent_queue>>
        ELSE /\ recent_keys' = remembered.keys
             /\ recent_queue' = remembered.queue
             /\ IF not_text_port(portnum)
                THEN ReturnFiltered(packet, now)
                ELSE LogMessage(packet, now, rawFails, logFails)

(***************************************************************************)
(* Pinger: fixes, templates and configuration.                             *)
(***************************************************************************)
\* The events of one full iteration of the loop (__main__.py:51-75); the
\* state keeps as many of the latest events
Iteration == <<"fix", "sent", "slept">>

\* fix before the first get_fix returns
NoFix == [some |-> FALSE, fix |-> GpsFix(0, 0, 0, None, None, None)]
SomeFix(fix) == [some |-> TRUE, fix |-> fix]

\* Fixes with and without the optional fields, on the first and second day
Fixes ==
  {GpsFix(1, 2, timestamp, hdop, satellites, satellites) :
     timestamp \in {1, DayLen + 1}, hdop \in {None, Just(1)}, satellites \in {None, Just(6)}}

\* Signal-strength readings: none, or a value in dB
Signals == {None, Just(-7)}

\* "hello" (test_send_fix_appends_tx_timestamp)
TemplateHello == <<TLit(W(1))>>
\* "sig {snr:.1f} radio {radio_snr}" (test_send_fix_formats_missing_signal)
TemplateSignal ==
  <<TLit(W(2)), TLit(WS), Field("snr", ".1f"), TLit(WS), TLit(W(3)), TLit(WS), Field("radio_snr", "")>>
\* "unknown {missing}" (test_build_message_unknown_key)
TemplateUnknownKey == <<TLit(W(4)), TLit(WS), Field("missing", "")>>
\* "GPS {lat:.1f} sats {satellites} hdop {hdop:.1f} {time}", as the default
\* template (configuration.py:100)
TemplateDefault ==
  <<TLit(W(5)), TLit(WS), Field("lat", ".1f"), TLit(WS), Field("satellites", ""), TLit(WS),
    Field("hdop", ".1f"), TLit(WS), Field("time", "")>>

Templates ==
  {TemplateHello, TemplateSignal, TemplateUnknownKey, TemplateDefault,
   <<Field("timestamp", ""), TLit(WS), Field("date", "")>>,
   <<Field("snr", "d"), TLit(WS), Field("fix_quality", "d")>>,
   <<Field("missing", ""), TLit(WS), Field("other", "")>>,
   <<Field("lat", "d"), TLit(WS), Field("missing", "")>>,
   <<Field("time", ".1f")>>}

\* AppConfig (configuration.py:96-103, 88-91)
Config(message_template, send_interval_seconds) ==
  [message_template |-> message_template, send_interval_seconds |-> send_interval_seconds]
DefaultConfig == Config(TemplateDefault, 1)
\* In the loop: a template that renders, one with an unknown key, one with
\* the signal readings; with and without an interval; a bare and a full fix
Configs ==
  {Config(template, interval) :
     template \in {TemplateDefault, TemplateUnknownKey, TemplateSignal}, interval \in {0, 1}}
LoopFixes == {GpsFix(1, 2, 1, None, None, None), GpsFix(1, 2, DayLen + 1, Just(1), Just(6), Just(1))}

\* Record of an invocation of send_fix; now is the time of the call
Send(called, fix, template, signal, radio_signal, now, result) ==
  [called |-> called, fix |-> fix, template |-> template, signal |-> signal,
   radio_signal |-> radio_signal, now |-> now, outcome |-> result.outcome,
   error |-> result.error, key |-> result.key, text |-> result.text]
NoSend ==
  Send(FALSE, NoFix.fix, << >>, None, None, 0,
       [outcome |-> "", error |-> "", key |-> "", text |-> << >>])

\* The newest n elements of a history
Latest(history, n) == IF Len(history) > n THEN SubSeq(history, Len(history) - n + 1, Len(history)) ELSE history

\* interface.sendText(message, ...) (radio.py:219-224)
sendText(message) == <<message>>

\* The packet the transport delivers for a transmitted text
RadioPacket(text) ==
  Packet(1, DecodedDict("TEXT_MESSAGE_APP", Str(text), BytesVal(text), NoneVal, NoTS, NoTS), NoneVal, NoneVal, NoTS)

(***************************************************************************)
(* Packets.                                                                *)
(***************************************************************************)
hello == <<W(1)>>
world == <<W(2)>>

TextPacket(id, portnum, text, timestamp) ==
  Packet(id, DecodedDict(portnum, Str(text), NoneVal, NoneVal, timestamp, NoTS), NoneVal, NoneVal, NoTS)

\* Packets delivered one after the other in the sequential specification
\* placeholder of a thread that handles no packet
NoPacket == Packet(NoId, EmptyDecoded, NoneVal, NoneVal, NoTS)

SeqPackets ==
  {TextPacket(id, "TEXT_MESSAGE_APP", hello, NoTS) : id \in 1..NumIds}
  \cup {TextPacket(1, "POSITION_APP", hello, NoTS),
        TextPacket(NoId, NoPort, world, IsoTzTS(1)),
        Packet(1, DecodedDict("TEXT_MESSAGE_APP", NoneLeaf, BadKeyDictVal(Str(hello)), NoneVal, NoTS, NoTS), NoneVal, NoneVal, NoTS)}

(***************************************************************************)
(* Spec: the listener handles packets one at a time.                       *)
(***************************************************************************)
ListenerInit ==
  /\ recent_keys = {}
  /\ recent_queue = << >>
  /\ log = << >>
  /\ output = << >>
  /\ appends = << >>
  /\ rawlog = << >>
  /\ raw_packet_path \in BOOLEAN
  /\ clock = 0
  /\ calls = << >>
  /\ pc = [t \in Threads |-> "idle"]
  /\ cur = [t \in Threads |-> NoPacket]

\* The pinger as _run_loop enters its loop (__main__.py:51)
PingerInit ==
  /\ sent = << >>
  /\ last_send = NoSend
  /\ loop_pc = "acquire"
  /\ loop_fix = NoFix
  /\ events = << >>

\* The mapper before it reads the log
NotRead == [read |-> FALSE, list |-> << >>]
MapperInit == messages = NotRead

\* The listener before start() is called (listener.py:173-177)
LifecycleInit ==
  /\ start_pc = "idle"
  /\ caller = "direct"
  /\ interface = "none"
  /\ pubsub_unsub = {}
  /\ subscriptions = {}
  /\ stop_event = FALSE

\* _run_loop inside its with block, both devices open (__main__.py:51)
ResourceInit ==
  /\ run_pc = "loop"
  /\ radio_mode = "longfast"
  /\ gps_serial = "open"
  /\ radio_interface = "open"

\* parse_nmea_sentence not yet called
GpsInit == nmea = [called |-> FALSE]

OtherInit == MapperInit /\ LifecycleInit /\ ResourceInit /\ GpsInit

Init == ListenerInit /\ PingerInit /\ OtherInit /\ config = DefaultConfig

\* time.time() as the next packet is handled
Tick(t) == IF t < MaxNow THEN t + 1 ELSE t

Receive ==
  /\ Len(calls) < MaxHandled
  /\ \E packet \in SeqPackets : OnReceive(packet, Tick(clock), FALSE, FALSE)
  /\ UNCHANGED <<pingerVars, otherVars>>

Next == Receive

Spec == Init /\ [][Next]_vars

(***************************************************************************)
(* SpecPacket: a fresh listener handles one packet, drawn from every shape *)
(* of packet, at any time and with either write failing or not.            *)
(***************************************************************************)
\* tx= epochs: the epoch start, a past one, one later than any receive
\* time, and one datetime.fromtimestamp() cannot convert
TxEpochs == {0, 2, MaxNow + 1, MaxTimestamp + 1}

Texts ==
  {hello, << >>, <<WS>>, <<TX(2), WS, HMS(1)>>, <<HMS(1), WS, TX(2)>>,
   <<NL>>, <<W(1), NL>>, <<W(1), NL, W(2)>>}
  \cup {<<W(1), WS, TX(e)>> : e \in TxEpochs}
  \cup {<<W(1), WS, HMS(tod)>> : tod \in {0, DayLen - 1, DayLen}}

Metadata ==
  {NoTS, NumTS(0), NumTS(2), NumTS(MaxTimestamp + 1), DigitsTS(3), IsoTS(2), IsoTzTS(2), JunkTS, BlankTS}

TimingPackets == {TextPacket(1, portnum, text, timestamp) : portnum \in Ports, text \in Texts, timestamp \in Metadata}

\* sent-time metadata under decoded["time"] and packet["timestamp"]
MetadataPackets ==
  {Packet(1, DecodedDict("TEXT_MESSAGE_APP", Str(text), NoneVal, NoneVal, ts1, ts2), NoneVal, NoneVal, ts3) :
     text \in {hello, <<W(1), WS, HMS(1)>>},
     ts1 \in {NoTS, NumTS(0), JunkTS}, ts2 \in {NoTS, NumTS(2)}, ts3 \in {NoTS, NumTS(0), NumTS(3)}}

\* the places a packet can carry its text in
ShapePackets ==
  {Packet(NoId, EmptyDecoded, NoneVal, NoneVal, NoTS),
   Packet(NoId, DecodedStr(hello), NoneVal, NoneVal, NoTS),
   Packet(NoId, DecodedStr(<<WS>>), BytesVal(world), NoneVal, NoTS),
   Packet(NoId, DecodedBytes(<<W(1), BAD>>), NoneVal, NoneVal, NoTS),
   Packet(NoId, EmptyDecoded, BytesVal(hello), NoneVal, NoTS),
   Packet(NoId, EmptyDecoded, BytesVal(world), NoneVal, NoTS),
   Packet(NoId, EmptyDecoded, NoneVal, StrVal(hello), NoTS),
   Packet(NoId, EmptyDecoded, DictVal(Str(hello), NoneLeaf, NoneLeaf), NoneVal, NoTS),
   Packet(NoId, EmptyDecoded, DictVal(NoneLeaf, Str(hello), NoneLeaf), NoneVal, NoTS)}
  \cup {Packet(1, DecodedDict(portnum, text, payload, data, NoTS, NoTS), top, NoneVal, NoTS) :
          portnum \in {NoPort, "TEXT_MESSAGE_APP"},
          text \in {NoneLeaf, Str(<< >>), Str(hello), Bytes(hello)},
          payload \in {NoneVal, BytesVal(<< >>), BytesVal(world), StrVal(world),
                       DictVal(Str(world), NoneLeaf, NoneLeaf),
                       DictVal(NoneLeaf, Bytes(world), NoneLeaf),
                       DictVal(NoneLeaf, NoneLeaf, Bytes(world)),
                       BadKeyDictVal(Str(world))},
          data \in {NoneVal, StrVal(<<W(3)>>), DictVal(Str(<<W(3)>>), NoneLeaf, NoneLeaf)},
          top \in {NoneVal, BytesVal(<<W(4)>>)}}

AllPackets == TimingPackets \cup MetadataPackets \cup ShapePackets

ReceiveOne ==
  /\ calls = << >>
  /\ \E packet \in AllPackets, now \in 1..MaxNow, rawFails \in BOOLEAN, logFails \in BOOLEAN :
       OnReceive(packet, now, rawFails, logFails)
  /\ UNCHANGED <<pingerVars, otherVars>>

NextPacket == ReceiveOne

SpecPacket == Init /\ [][NextPacket]_vars

(***************************************************************************)
(* SpecAppend: _append_line is called on the log file with any texts, as   *)
(* test_append_line_appends_messages does.                                 *)
(***************************************************************************)
\* Number of calls explored
(***************************************************************************)
(* SpecPair: two packets handled one after the other, drawn from packets   *)
(* that carry their text in the decoded dict, as the decoded area itself,  *)
(* or in the top-level payload or data.                                    *)
(***************************************************************************)
PairPackets ==
  {TextPacket(1, "TEXT_MESSAGE_APP", text, NoTS) : text \in {hello, world}}
  \cup {Packet(1, DecodedDict("TEXT_MESSAGE_APP", NoneLeaf, NoneVal, StrVal(text), NoTS, NoTS), NoneVal, NoneVal, NoTS) : text \in {hello, world}}
  \cup {Packet(NoId, DecodedStr(text), NoneVal, NoneVal, NoTS) : text \in {hello, world}}
  \cup {Packet(NoId, EmptyDecoded, BytesVal(text), NoneVal, NoTS) : text \in {hello, world}}
  \cup {Packet(NoId, EmptyDecoded, NoneVal, StrVal(text), NoTS) : text \in {hello, world}}

ReceivePair ==
  /\ Len(calls) < Len(<<hello, world>>)
  /\ \E packet \in PairPackets : OnReceive(packet, Tick(clock), FALSE, FALSE)
  /\ UNCHANGED <<pingerVars, otherVars>>

NextPair == ReceivePair

SpecPair == Init /\ [][NextPair]_vars

(***************************************************************************)
(* SpecMapper: the listener logs up to two packets, then the mapper reads  *)
(* the log file.                                                           *)
(***************************************************************************)
GpsTexts ==
  {<<GPS(1)>>, <<GPS(1), WS, GPS(2)>>, <<GPS(2), WS, HMS(1)>>, <<GPS(2), WS, TX(2)>>,
   <<GPSINT>>, hello,
   <<GPS(1), WS, SENT_AT, WS, ISO(0)>>,
   <<GPS(1), NL, W(2)>>}

GpsPackets ==
  {TextPacket(id, "TEXT_MESSAGE_APP", text, NoTS) : id \in {1}, text \in GpsTexts}
  \cup {TextPacket(2, "TEXT_MESSAGE_APP", text, NumTS(2)) : text \in {<<GPS(1)>>, hello}}

ReceiveGps ==
  /\ ~messages.read
  /\ Len(calls) < Len(<<hello, world>>)
  /\ \E packet \in GpsPackets : OnReceive(packet, Tick(clock), FALSE, FALSE)
  /\ UNCHANGED <<pingerVars, otherVars>>

\* parse_messages_file(output_path) (parser.py:108-121)
ParseMessagesFile ==
  /\ ~messages.read
  /\ messages' = [read |-> TRUE, list |-> parse_messages_file(output)]
  /\ UNCHANGED exceptMapper

NextMapper == ReceiveGps \/ ParseMessagesFile

SpecMapper == Init /\ [][NextMapper]_vars

(***************************************************************************)
(* SpecStart: start() and close() (listener.py:378-412), called directly   *)
(* or by main() inside "with MeshtasticListener(...) as listener"          *)
(* (listener.py:421-427).  A KeyboardInterrupt is raised in the main       *)
(* thread wherever it stands when the signal arrives.                      *)
(***************************************************************************)
Topics == {"meshtastic.receive", "meshtastic.receive.text", "meshtastic.receive.data", "meshtastic.receive.position"}

\* close() (listener.py:396-406) leaves nothing subscribed through
\* _pubsub_unsub and the interface closed, if there is one
close_subscriptions == subscriptions \ pubsub_unsub
close_interface == IF interface = "open" THEN "closed" ELSE interface

Close ==
  /\ subscriptions' = close_subscriptions
  /\ pubsub_unsub' = {}
  /\ interface' = close_interface

InitStart ==
  /\ ListenerInit /\ PingerInit /\ MapperInit /\ ResourceInit /\ GpsInit
  /\ config = DefaultConfig
  /\ start_pc = "idle"
  /\ caller \in {"direct", "main"}
  /\ interface = "none"
  /\ pubsub_unsub = {}
  /\ subscriptions = {}
  /\ stop_event = FALSE

\* listener.py:381-382: interface_factory returns an interface, or raises
OpenInterface ==
  /\ start_pc = "idle"
  /\ \/ interface' = "open" /\ start_pc' = "subscribe"
     \/ interface' = "none" /\ start_pc' = "raised"
  /\ UNCHANGED <<caller, pubsub_unsub, subscriptions, stop_event>>
  /\ UNCHANGED exceptLifecycle

\* _subscribe_pubsub (listener.py:281-354): each topic is subscribed or its
\* failure is logged; an unsubscriber is kept for every subscribed topic
SubscribePubsub ==
  /\ start_pc = "subscribe"
  /\ \E subscribed \in SUBSET Topics :
       /\ subscriptions' = subscribed
       /\ pubsub_unsub' = subscribed
  /\ start_pc' = "radio_mode"
  /\ UNCHANGED <<caller, interface, stop_event>>
  /\ UNCHANGED exceptLifecycle

\* _apply_radio_mode (listener.py:179-203): every failure is logged
ApplyRadioMode ==
  /\ start_pc = "radio_mode"
  /\ start_pc' = "wait"
  /\ UNCHANGED <<caller, interface, pubsub_unsub, subscriptions, stop_event>>
  /\ UNCHANGED exceptLifecycle

\* a KeyboardInterrupt while start() is between opening the interface and
\* its try statement (listener.py:382-387): nothing in start() handles it
InterruptSetup ==
  /\ start_pc \in {"subscribe", "radio_mode"}
  /\ start_pc' = "raised"
  /\ UNCHANGED <<caller, interface, pubsub_unsub, subscriptions, stop_event>>
  /\ UNCHANGED exceptLifecycle

\* wait_for.wait(timeout=1) returns False after a second (listener.py:389-390)
WaitTimeout ==
  /\ start_pc = "wait"
  /\ ~stop_event
  /\ clock' = Tick(clock)
  /\ UNCHANGED lifecycleVars
  /\ UNCHANGED <<recent_keys, recent_queue, log, output, appends, rawlog, raw_packet_path, calls, pc, cur>>
  /\ UNCHANGED <<pingerVars, mapperVars, resourceVars, gpsVars>>

\* wait_for.wait(timeout=1) returns True; finally: close() (listener.py:389, 393-394)
WaitStopped ==
  /\ start_pc = "wait"
  /\ stop_event
  /\ Close
  /\ start_pc' = "returned"
  /\ UNCHANGED <<caller, stop_event>>
  /\ UNCHANGED exceptLifecycle

\* KeyboardInterrupt inside the try: caught, then close() (listener.py:391-394)
WaitInterrupted ==
  /\ start_pc = "wait"
  /\ Close
  /\ start_pc' = "returned"
  /\ UNCHANGED <<caller, stop_event>>
  /\ UNCHANGED exceptLifecycle

\* another exception inside the try: close(), then it leaves start() (listener.py:393-394)
WaitRaised ==
  /\ start_pc = "wait"
  /\ Close
  /\ start_pc' = "raised"
  /\ UNCHANGED <<caller, stop_event>>
  /\ UNCHANGED exceptLifecycle

\* another thread sets the stop event
SetStop ==
  /\ ~stop_event
  /\ start_pc \notin {"returned", "raised", "exited"}
  /\ stop_event' = TRUE
  /\ UNCHANGED <<start_pc, caller, interface, pubsub_unsub, subscriptions>>
  /\ UNCHANGED exceptLifecycle

\* __exit__ of the with block of main() (listener.py:411-412, 421-427)
ContextExit ==
  /\ caller = "main"
  /\ start_pc \in {"returned", "raised"}
  /\ Close
  /\ start_pc' = "exited"
  /\ UNCHANGED <<caller, stop_event>>
  /\ UNCHANGED exceptLifecycle

NextStart ==
  \/ OpenInterface
  \/ SubscribePubsub
  \/ ApplyRadioMode
  \/ InterruptSetup
  \/ WaitTimeout
  \/ WaitStopped
  \/ WaitInterrupted
  \/ WaitRaised
  \/ SetStop
  \/ ContextExit

SpecStart == InitStart /\ [][NextStart]_vars

\* the main thread keeps running start()
StartStep ==
  \/ OpenInterface
  \/ SubscribePubsub
  \/ ApplyRadioMode
  \/ WaitStopped
  \/ WaitTimeout

SpecStartFair == SpecStart /\ WF_vars(StartStep)

MaxAppends == 3

\* with and without trailing newlines, empty, with a newline inside
AppendTexts ==
  {hello, << >>, <<W(1), NL>>, <<W(1), NL, NL>>, <<W(1), WS, W(2)>>, <<W(1), NL, W(2)>>}

AppendLine ==
  /\ Len(appends) < MaxAppends
  /\ \E text \in AppendTexts :
       /\ output' = append_line(output, text)
       /\ appends' = Append(appends, text)
  /\ UNCHANGED <<recent_keys, recent_queue, log, rawlog, raw_packet_path, clock, calls, pc, cur>>
  /\ UNCHANGED <<pingerVars, otherVars>>

NextAppend == AppendLine

SpecAppend == Init /\ [][NextAppend]_vars

(***************************************************************************)
(* SpecSend: the pinger sends one fix with any template, and the listener  *)
(* then handles the text that was transmitted.                             *)
(***************************************************************************)
\* MeshtasticClient.send_fix (radio.py:207-224) called at time now
SendFix(fix, template, signal, radio_signal, now, sendFails) ==
  LET result == send_fix(fix, template, signal, radio_signal, sendFails)
  IN /\ last_send' = Send(TRUE, fix, template, signal, radio_signal, now, result)
     /\ sent' = IF result.outcome = "sent" THEN sendText(result.text) ELSE sent

SendOne ==
  /\ ~last_send.called
  /\ \E fix \in Fixes, template \in Templates, signal \in Signals, radio_signal \in Signals,
        now \in 1..MaxNow, sendFails \in BOOLEAN :
       SendFix(fix, template, signal, radio_signal, now, sendFails)
  /\ UNCHANGED <<otherVars, listenerVars, config, loop_pc, loop_fix, events>>

ReceiveSent ==
  /\ calls = << >>
  /\ sent # << >>
  /\ \E now \in last_send.now..MaxNow : OnReceive(RadioPacket(sent[Len(sent)]), now, FALSE, FALSE)
  /\ UNCHANGED <<pingerVars, otherVars>>

NextSend == SendOne \/ ReceiveSent

SpecSend == Init /\ [][NextSend]_vars

(***************************************************************************)
(* SpecLoop: the loop of _run_loop (__main__.py:51-75).  SpecLoopFair adds *)
(* that the loop keeps taking steps: it is the only thread of the pinger,  *)
(* get_fix returns or raises at its deadline and the sleep is finite.      *)
(***************************************************************************)
\* Faulty variant: the TimeoutError of get_fix is not caught
next_after_get_fix_uncaught(outcome) == IF outcome = "fix" THEN "send" ELSE "terminated"

\* The try statement around get_fix (__main__.py:53-57): a fix goes on to
\* the send, TimeoutError continues the loop, any other exception leaves it
next_after_get_fix(outcome) ==
  CASE outcome = "fix" -> "send"
    [] outcome = "timeout" -> "acquire"
    [] OTHER -> "terminated"

\* After the send, failed or not (__main__.py:68-75)
next_after_send(interval) == IF interval > 0 THEN "sleep" ELSE "acquire"

\* gps_reader.get_fix (gps.py:124-138): returns a fix, raises TimeoutError
\* at the deadline, or fails reading the serial port
GetFix ==
  /\ loop_pc = "acquire"
  /\ \E outcome \in {"fix", "timeout", "error"}, fix \in LoopFixes :
       /\ loop_pc' = next_after_get_fix(outcome)
       /\ loop_fix' = IF outcome = "fix" THEN SomeFix(fix) ELSE loop_fix
       /\ events' = Latest(Append(events, outcome), Len(Iteration))
  /\ UNCHANGED <<otherVars, listenerVars, sent, last_send, config>>

\* radio.send_fix(fix, config.message_template) inside try/except Exception
\* (__main__.py:68-71)
LoopSend ==
  /\ loop_pc = "send"
  /\ \E signal \in Signals, sendFails \in BOOLEAN :
       /\ SendFix(loop_fix.fix, config.message_template, signal, signal, clock, sendFails)
       /\ events' = Latest(Append(events, IF last_send'.outcome = "sent" THEN "sent" ELSE "send_failed"), Len(Iteration))
  /\ loop_pc' = next_after_send(config.send_interval_seconds)
  /\ UNCHANGED <<otherVars, listenerVars, config, loop_fix>>

\* time.sleep(config.send_interval_seconds) (__main__.py:73-75)
Sleep ==
  /\ loop_pc = "sleep"
  /\ events' = Latest(Append(events, "slept"), Len(Iteration))
  /\ loop_pc' = "acquire"
  /\ UNCHANGED <<otherVars, listenerVars, sent, last_send, config, loop_fix>>

InitLoop == ListenerInit /\ ~raw_packet_path /\ PingerInit /\ OtherInit /\ config \in Configs

NextLoop == GetFix \/ LoopSend \/ Sleep

SpecLoop == InitLoop /\ [][NextLoop]_vars

SpecLoopFair == SpecLoop /\ WF_vars(NextLoop)

(***************************************************************************)
(* SpecRun: _run_loop from its with statement on (__main__.py:39-75): the  *)
(* GPS reader is constructed, then the radio client, then the loop runs    *)
(* until an exception leaves it.                                           *)
(***************************************************************************)
\* resolve_radio_mode (radio.py:71-84) raises ValueError on an unknown name
RadioModes == {"", "longfast", "nosuchmode"}
resolve_radio_mode_raises(value) == value \notin {"", "longfast"}

InitRun ==
  /\ ListenerInit /\ ~raw_packet_path /\ PingerInit /\ MapperInit /\ LifecycleInit /\ GpsInit
  /\ config = DefaultConfig
  /\ run_pc = "gps"
  /\ radio_mode \in RadioModes
  /\ gps_serial = "none"
  /\ radio_interface = "none"

\* SerialGpsReader.__init__ (gps.py:98-113): no port is found or
\* serial.Serial raises; or the port is opened and reset_input_buffer
\* raises; or the reader is constructed
OpenGps ==
  /\ run_pc = "gps"
  /\ \/ gps_serial' = "none" /\ run_pc' = "exited"
     \/ gps_serial' = "open" /\ run_pc' = "exited"
     \/ gps_serial' = "open" /\ run_pc' = "radio"
  /\ UNCHANGED <<radio_mode, radio_interface>>
  /\ UNCHANGED exceptResource

\* SerialGpsReader.close (gps.py:121-123), called by __exit__
gps_close(port) == IF port = "open" THEN "closed" ELSE port

\* MeshtasticClient.__post_init__ (radio.py:96-109) as the second item of
\* the with statement: when it raises, the GPS reader's __exit__ runs
ConstructClient ==
  /\ run_pc = "radio"
  /\ \/ /\ radio_interface' = "none"
        /\ gps_serial' = gps_close(gps_serial)
        /\ run_pc' = "exited"
     \/ /\ radio_interface' = "open"
        /\ IF resolve_radio_mode_raises(radio_mode)
           THEN gps_serial' = gps_close(gps_serial) /\ run_pc' = "exited"
           ELSE gps_serial' = gps_serial /\ run_pc' = "loop"
  /\ UNCHANGED radio_mode
  /\ UNCHANGED exceptResource

\* one step of the loop body
RunLoop ==
  /\ run_pc = "loop"
  /\ NextLoop

\* an exception leaves the loop (a failed serial read in get_fix, or a
\* KeyboardInterrupt): both __exit__ methods run (radio.py:114-115, 132-133;
\* gps.py:118-123)
LeaveLoop ==
  /\ run_pc = "loop"
  /\ radio_interface' = "closed"
  /\ gps_serial' = gps_close(gps_serial)
  /\ run_pc' = "exited"
  /\ UNCHANGED radio_mode
  /\ UNCHANGED exceptResource

NextRun == OpenGps \/ ConstructClient \/ RunLoop \/ LeaveLoop

SpecRun == InitRun /\ [][NextRun]_vars

(***************************************************************************)
(* The NMEA parser (gps.py:29-90).  pynmea2 is an external library: a      *)
(* sentence is modelled by its fields, and the attributes of the parsed    *)
(* message are what the library presents for them:                         *)
(*   - a field the sentence type does not have raises AttributeError, so   *)
(*     getattr yields its default;                                         *)
(*   - latitude and longitude are properties computed from the field and   *)
(*     its direction: 0.0 when the field is empty;                         *)
(*   - timestamp is a datetime.time, None when the field is empty;         *)
(*   - gps_qual is presented as an int (None when empty) by releases that  *)
(*     declare the field with the int converter, as a str by others;       *)
(*   - status, num_sats and horizontal_dil are the field's text.           *)
(* A field is "absent" (not in the sentence type), "empty", "junk" (text   *)
(* that is no number) or holds a value.                                    *)
(***************************************************************************)
Absent == [k |-> "absent", v |-> 0]
Empty == [k |-> "empty", v |-> 0]
Junk == [k |-> "junk", v |-> 0]
Val(x) == [k |-> "val", v |-> x]

Sentence(ok, status, lat, lon, time, qual, sats, hdop) ==
  [ok |-> ok, status |-> status, lat |-> lat, lon |-> lon, time |-> time,
   qual |-> qual, sats |-> sats, hdop |-> hdop]

\* Python values of the attributes: None, an int or float, a str
PyNone == [k |-> "none", v |-> 0]
PyNum(x) == [k |-> "num", v |-> x]
PyStr(field) == [k |-> IF field.k = "val" THEN "digits" ELSE field.k, v |-> field.v]

\* bool(value)
PyTruthy(x) ==
  CASE x.k = "none" -> FALSE
    [] x.k = "num" -> x.v # 0
    [] x.k = "empty" -> FALSE
    [] OTHER -> TRUE

PyOr(a, b) == IF PyTruthy(a) THEN a ELSE b

\* getattr(msg, "latitude", None), getattr(msg, "longitude", None)
attr_coordinate(field) ==
  CASE field.k = "absent" -> PyNone
    [] field.k = "empty" -> PyNum(0)
    [] OTHER -> PyNum(field.v)

\* getattr(msg, "gps_qual", None); typing is "int" or "str"
attr_gps_qual(field, typing) ==
  CASE field.k = "absent" -> PyNone
    [] typing = "str" -> PyStr(field)
    [] field.k = "empty" -> PyNone
    [] OTHER -> PyNum(field.v)

\* getattr(msg, name, None) of a field presented as text
attr_text(field) == IF field.k = "absent" THEN PyNone ELSE PyStr(field)

\* _coerce_int, _coerce_float (gps.py:29-44), and int or float values as they are
coerce_number(value) ==
  CASE value.k \in {"num", "digits"} -> Just(value.v)
    [] OTHER -> None

\* str.upper() of a status flag
status_upper(status) == IF status = "v" THEN "V" ELSE status

\* timedelta(minutes=1) (gps.py:52), in ticks
Minute == 1

\* a faulty reconstruction that never steps back a day
build_timestamp_same_day(time, now) ==
  IF time.k # "val" THEN now ELSE (now \div DayLen) * DayLen + time.v

\* _build_timestamp (gps.py:47-54); now is datetime.now(timezone.utc)
build_timestamp(time, now) ==
  IF time.k # "val" THEN now
  ELSE LET combined == (now \div DayLen) * DayLen + time.v
       IN IF combined > now + Minute THEN combined - DayLen ELSE combined

\* parse_nmea_sentence (gps.py:57-90)
parse_nmea_sentence(sentence, now, typing) ==
  LET status == IF sentence.status = "absent" THEN "A" ELSE sentence.status
      latitude == attr_coordinate(sentence.lat)
      longitude == attr_coordinate(sentence.lon)
      ts == build_timestamp(sentence.time, now)
      hdop == attr_text(sentence.hdop)
      satellites == coerce_number(attr_text(sentence.sats))
      fix_quality == coerce_number(PyOr(attr_gps_qual(sentence.qual, typing), PyNone))
  IN IF ~sentence.ok THEN NoFix
     ELSE IF status_upper(status) = "V" THEN NoFix
     ELSE IF latitude.k = "none" \/ longitude.k = "none" THEN NoFix
     ELSE IF fix_quality = Just(0) THEN NoFix
     ELSE SomeFix(GpsFix(latitude.v, longitude.v, ts, coerce_number(hdop), satellites, fix_quality))

(***************************************************************************)
(* SpecGps: parse_nmea_sentence is called on one sentence.                 *)
(***************************************************************************)
Statuses == {"absent", "", "A", "V", "v"}

Sentences ==
  {Sentence(TRUE, status, lat, lon, time, qual, sats, hdop) :
     status \in Statuses,
     lat \in {Absent, Empty, Val(1)},
     lon \in {Absent, Empty, Val(2)},
     time \in {Absent, Empty} \cup {Val(tod) : tod \in 0..(DayLen - 1)},
     qual \in {Absent, Empty, Val(0), Val(1)},
     sats \in {Absent, Val(6)},
     hdop \in {Junk, Val(1)}}
  \cup {Sentence(FALSE, "absent", Absent, Absent, Absent, Absent, Absent, Absent)}

ParseSentence ==
  /\ ~nmea.called
  /\ \E sentence \in Sentences, now \in 0..MaxNow, typing \in {"int", "str"} :
       nmea' = [called |-> TRUE, sentence |-> sentence, now |-> now, typing |-> typing,
                result |-> parse_nmea_sentence(sentence, now, typing)]
  /\ UNCHANGED exceptGps

NextGps == ParseSentence

SpecGps == Init /\ [][NextGps]_vars

(***************************************************************************)
(* SpecThreads: the two delivery paths run the handler on two threads.     *)
(* The handler takes no lock, so its statements interleave; each step      *)
(* below is one statement (or a run of statements that touch no shared     *)
(* state).                                                                 *)
(***************************************************************************)
ThreadPackets ==
  {TextPacket(1, "TEXT_MESSAGE_APP", hello, NoTS),
   TextPacket(2, "TEXT_MESSAGE_APP", hello, NoTS),
   TextPacket(1, "POSITION_APP", hello, NoTS)}

\* the transport calls the handler on thread t
Deliver(t) ==
  /\ pc[t] = "idle"
  /\ \E packet \in ThreadPackets : cur' = [cur EXCEPT ![t] = packet]
  /\ pc' = [pc EXCEPT ![t] = "check"]
  /\ UNCHANGED <<recent_keys, recent_queue, log, output, appends, rawlog, raw_packet_path, clock, calls>>
  /\ UNCHANGED <<pingerVars, otherVars>>

\* listener.py:219-222: key = self._packet_key(packet); if key in self._recent_keys
CheckDuplicate(t) ==
  /\ pc[t] = "check"
  /\ UNCHANGED <<recent_keys, recent_queue, raw_packet_path, cur>>
  /\ UNCHANGED <<pingerVars, otherVars>>
  /\ IF ~key_builds(cur[t])
     THEN /\ pc' = [pc EXCEPT ![t] = "filter"]
          /\ UNCHANGED <<log, output, appends, rawlog, clock, calls>>
     ELSE IF packet_key(cur[t]) \in recent_keys
     THEN /\ pc' = [pc EXCEPT ![t] = "done"]
          /\ clock' = Tick(clock)
          /\ ReturnDuplicate(cur[t], clock')
     ELSE /\ pc' = [pc EXCEPT ![t] = "add"]
          /\ UNCHANGED <<log, output, appends, rawlog, clock, calls>>

\* listener.py:371: self._recent_keys.add(key)
RememberKey(t) ==
  /\ pc[t] = "add"
  /\ recent_keys' = add_key(recent_keys, packet_key(cur[t]))
  /\ pc' = [pc EXCEPT ![t] = "append"]
  /\ UNCHANGED <<recent_queue, log, output, appends, rawlog, raw_packet_path, clock, calls, cur>>
  /\ UNCHANGED <<pingerVars, otherVars>>

\* listener.py:372-375: self._recent_queue.append(key) and the eviction loop
RememberQueue(t) ==
  /\ pc[t] = "append"
  /\ LET r == evict(recent_keys, deque_append(recent_queue, packet_key(cur[t])))
     IN /\ recent_keys' = r.keys
        /\ recent_queue' = r.queue
  /\ pc' = [pc EXCEPT ![t] = "filter"]
  /\ UNCHANGED <<log, output, appends, rawlog, raw_packet_path, clock, calls, cur>>
  /\ UNCHANGED <<pingerVars, otherVars>>

\* listener.py:229-231
PortFilter(t) ==
  /\ pc[t] = "filter"
  /\ UNCHANGED <<recent_keys, recent_queue, raw_packet_path, cur>>
  /\ UNCHANGED <<pingerVars, otherVars>>
  /\ IF not_text_port(decoded_of(cur[t]).portnum)
     THEN /\ pc' = [pc EXCEPT ![t] = "done"]
          /\ clock' = Tick(clock)
          /\ ReturnFiltered(cur[t], clock')
     ELSE /\ pc' = [pc EXCEPT ![t] = "write"]
          /\ UNCHANGED <<log, output, appends, rawlog, clock, calls>>

\* listener.py:233-279
WriteLog(t) ==
  /\ pc[t] = "write"
  /\ pc' = [pc EXCEPT ![t] = "done"]
  /\ clock' = Tick(clock)
  /\ LogMessage(cur[t], clock', FALSE, FALSE)
  /\ UNCHANGED <<recent_keys, recent_queue, raw_packet_path, cur>>
  /\ UNCHANGED <<pingerVars, otherVars>>

NextThreads ==
  \E t \in Threads :
    \/ Deliver(t)
    \/ CheckDuplicate(t)
    \/ RememberKey(t)
    \/ RememberQueue(t)
    \/ PortFilter(t)
    \/ WriteLog(t)

SpecThreads == Init /\ [][NextThreads]_vars

(***************************************************************************)
(* Vocabulary of the properties.                                           *)
(***************************************************************************)
\* Number of lines invocation i appended to the main log
Appended(i) == calls[i].lines - (IF i = 1 THEN 0 ELSE calls[i - 1].lines)

\* Invocations i and j handled packets with the same fingerprint
SameFingerprint(i, j) == calls[i].key # <<"nokey">> /\ calls[j].key = calls[i].key

\* Invocation i is the first one with its fingerprint
FirstArrival(i) == \A m \in 1..(i - 1) : calls[m].key # calls[i].key

\* No invocation strictly between i and j has the fingerprint of i
NoArrivalBetween(i, j) == \A m \in (i + 1)..(j - 1) : calls[m].key # calls[i].key

\* The distinct other fingerprints handled strictly between invocations i and j
OthersBetween(i, j) == {calls[m].key : m \in (i + 1)..(j - 1)} \ {calls[i].key, <<"nokey">>}

\* Those of them that had not been handled before invocation i
NewOthersBetween(i, j) == OthersBetween(i, j) \ {calls[m].key : m \in 1..i}

\* The fingerprints held by the FIFO
QueueKeys == {recent_queue[i] : i \in DOMAIN recent_queue}

\* Names of the text-message classifier
TextPortNames == {"TEXT_MESSAGE_APP", "text_message_app"}

\* The packet declares a port classifier that is not the text-message one
DeclaresOtherPort(packet) == packet.decoded.portnum # NoPort /\ packet.decoded.portnum \notin TextPortNames

\* The text carries a tx= tag; its first tag's epoch
HasTag(text) == \E n \in DOMAIN text : text[n].k = "tx"
FirstTag(text) == text[CHOOSE n \in DOMAIN text : text[n].k = "tx" /\ \A m \in 1..(n - 1) : text[m].k # "tx"].v

(***************************************************************************)
(* Deduplication window.                                                   *)
(***************************************************************************)
\* C1: when a fingerprint whose first arrival was logged arrives again with
\* fewer than maxlen distinct other fingerprints handled in between, the later
\* invocation is discarded as a duplicate and appends nothing, so the log
\* holds exactly one entry for that fingerprint.
DuplicateWithinWindowLoggedOnce ==
  \A i, j \in DOMAIN calls :
    (/\ i < j
     /\ SameFingerprint(i, j)
     /\ FirstArrival(i)
     /\ calls[i].outcome = "logged"
     /\ Cardinality(OthersBetween(i, j)) < maxlen)
    => /\ calls[j].outcome = "duplicate"
       /\ Appended(j) = 0
       /\ Cardinality({m \in 1..j : calls[m].key = calls[i].key /\ Appended(m) = 1}) = 1

\* C1 witness: the same packet was handled twice with another fingerprint in
\* between; the first invocation logged it and the second discarded it.
WitnessDuplicateDiscarded ==
  \E i, j \in DOMAIN calls :
    /\ i < j
    /\ calls[j].packet = calls[i].packet
    /\ SameFingerprint(i, j)
    /\ FirstArrival(i)
    /\ Cardinality(OthersBetween(i, j)) = 1
    /\ calls[i].outcome = "logged"
    /\ calls[j].outcome = "duplicate"
    /\ Len(log) = Cardinality({m \in DOMAIN calls : calls[m].outcome = "logged"})

\* C2: a packet that was logged, and whose fingerprint next arrives after
\* maxlen or more distinct new fingerprints were handled, is logged again.
EvictedFingerprintLoggedAgain ==
  \A i, j \in DOMAIN calls :
    (/\ i < j
     /\ calls[j].packet = calls[i].packet
     /\ SameFingerprint(i, j)
     /\ FirstArrival(i)
     /\ NoArrivalBetween(i, j)
     /\ calls[i].outcome = "logged"
     /\ Cardinality(NewOthersBetween(i, j)) >= maxlen)
    => /\ calls[j].outcome = "logged"
       /\ Appended(j) = 1

\* C3: the membership set and the FIFO hold exactly the same fingerprints.
SetAndFifoConsistent == recent_keys = QueueKeys

\* C4: neither the FIFO nor the membership set ever holds more than maxlen
\* fingerprints.
WindowBounded == Len(recent_queue) <= maxlen /\ Cardinality(recent_keys) <= maxlen

\* C5: when both threads have handled the same loggable packet, whatever the
\* interleaving, the log holds exactly one entry and the set and the FIFO
\* hold the same fingerprints.
ConcurrentDeliveryLoggedOnce ==
  (/\ \A t \in Threads : pc[t] = "done"
   /\ cur["onReceive"] = cur["pubsub"]
   /\ ~DeclaresOtherPort(cur["onReceive"]))
  => /\ Len(log) = 1
     /\ recent_keys = QueueKeys

(***************************************************************************)
(* Port filter and text extraction.                                        *)
(***************************************************************************)
\* C6: a packet that declares a port classifier other than the text-message
\* one is discarded without a log entry and without an error; a packet that
\* declares no port classifier is never discarded by the port filter.
NonTextPortNeverLogged ==
  \A i \in DOMAIN calls :
    /\ DeclaresOtherPort(calls[i].packet)
         => calls[i].outcome \in {"duplicate", "filtered"} /\ Appended(i) = 0
    /\ calls[i].packet.decoded.portnum = NoPort => calls[i].outcome # "filtered"

\* C6 witness: a POSITION_APP packet that carries text was filtered out.
WitnessPositionPacketFiltered ==
  \E i \in DOMAIN calls :
    /\ calls[i].packet.decoded.portnum = "POSITION_APP"
    /\ calls[i].packet.decoded.text = Str(hello)
    /\ calls[i].outcome = "filtered"
    /\ log = << >>

\* C7: every non-duplicate packet that passes the port filter and carries
\* non-blank text appends exactly one entry (the write itself succeeding),
\* with the extracted text as message and the time of handling as received_at.
EveryTextPacketLogged ==
  \A i \in DOMAIN calls :
    LET c == calls[i]
        m == extract_message_text(c.packet)
    IN (/\ c.outcome # "duplicate"
        /\ ~DeclaresOtherPort(c.packet)
        /\ m.some
        /\ ~IsBlank(m.t)
        /\ ~c.logFails)
       => /\ c.outcome = "logged"
          /\ Appended(i) = 1
          /\ log[c.lines].message = m.t
          /\ log[c.lines].received_at = isoformat(fromtimestamp(c.now))

\* C8: a packet from which no text is recovered, or only empty or whitespace
\* text, is discarded silently: nothing is raised and nothing is appended.
NoTextDiscardedSilently ==
  \A i \in DOMAIN calls :
    LET m == extract_message_text(calls[i].packet)
    IN (~m.some \/ IsBlank(m.t))
       => calls[i].outcome \in {"duplicate", "filtered", "notext"} /\ Appended(i) = 0

\* C8 witness: a text-port packet whose text is whitespace only was discarded
\* by the text test.
WitnessWhitespaceDiscarded ==
  \E i \in DOMAIN calls :
    /\ calls[i].packet.decoded.text = Str(<<WS>>)
    /\ ~DeclaresOtherPort(calls[i].packet)
    /\ calls[i].outcome = "notext"
    /\ log = << >>

(***************************************************************************)
(* Time reconciliation.                                                    *)
(***************************************************************************)
\* C9: in every entry written, sent_at is the tx= tag of the text when there
\* is one; otherwise the packet's sent-time metadata when it parses; otherwise
\* the trailing HH:MM:SS token on the receive date; otherwise sent_at and
\* delay_s are both n/a.
SentTimePriority ==
  \A i \in DOMAIN calls :
    calls[i].outcome = "logged" =>
      LET c == calls[i]
          e == log[c.lines]
          received == fromtimestamp(c.now)
          meta == parse_sent_time(sent_raw_of(c.packet, decoded_of(c.packet)))
          tail == parse_time_from_message_tail(e.message, received)
      IN /\ HasTag(e.message) => e.sent_at = isoformat(fromtimestamp(FirstTag(e.message)))
         /\ ~HasTag(e.message) /\ meta.some => e.sent_at = isoformat(meta)
         /\ ~HasTag(e.message) /\ ~meta.some /\ tail.some => e.sent_at = isoformat(tail)
         /\ ~HasTag(e.message) /\ ~meta.some /\ ~tail.some => e.sent_at = NA /\ e.delay_s = NoDelay

\* C9 witness: an entry was written for a packet that carries a tx= tag, a
\* trailing time token and usable metadata naming another time; sent_at is
\* the tag's time.
WitnessTagBeatsMetadata ==
  \E i \in DOMAIN calls :
    /\ calls[i].outcome = "logged"
    /\ HasTag(log[calls[i].lines].message)
    /\ calls[i].packet.decoded.timestamp = IsoTS(2)
    /\ Words(log[calls[i].lines].message)[2].k = "hms"
    /\ log[calls[i].lines].sent_at = isoformat(fromtimestamp(FirstTag(log[calls[i].lines].message)))
    /\ log[calls[i].lines].sent_at # isoformat(Dt(FALSE, 2))

\* C10: the delay of an entry is never negative: with a tx= tag it is
\* max(0, now - tx), hence 0 when the tag is later than the receive time;
\* otherwise it is the absolute difference of received_at and sent_at.
DelayNeverNegative ==
  \A i \in DOMAIN calls :
    calls[i].outcome = "logged" =>
      LET c == calls[i]
          e == log[c.lines]
      IN /\ e.delay_s.k = "num" => e.delay_s.v >= 0
         /\ HasTag(e.message) =>
              e.delay_s = Delay(IF FirstTag(e.message) > c.now THEN 0 ELSE c.now - FirstTag(e.message))
         /\ ~HasTag(e.message) /\ e.sent_at # NA =>
              e.delay_s = Delay(IF e.received_at.t >= e.sent_at.t
                                THEN e.received_at.t - e.sent_at.t
                                ELSE e.sent_at.t - e.received_at.t)

\* C10 witness: an entry was written for a tx= tag later than the receive
\* time, with delay 0.
WitnessFutureTagDelayZero ==
  \E i \in DOMAIN calls :
    /\ calls[i].outcome = "logged"
    /\ HasTag(log[calls[i].lines].message)
    /\ FirstTag(log[calls[i].lines].message) > calls[i].now
    /\ log[calls[i].lines].delay_s = Delay(0)

(***************************************************************************)
(* Raw-packet trace and the log store.                                     *)
(***************************************************************************)
\* The packet of invocation c passed the duplicate test, the port filter and
\* the text test
PassesFilters(c) ==
  LET m == extract_message_text(c.packet)
  IN c.outcome \notin {"duplicate", "filtered"} /\ m.some /\ ~IsBlank(m.t)

\* The reconciliation of its times raises (listener.py:258, 263)
ReconcileRaises(c) ==
  reconcile(c.packet, decoded_of(c.packet), extract_message_text(c.packet).t, c.now).raised

\* The handler reached the append to the main log
ReachesAppend(c) == PassesFilters(c) /\ ~ReconcileRaises(c)

\* The entry the handler writes for the packet of invocation c
EntryOf(c) ==
  LET m == extract_message_text(c.packet)
      r == reconcile(c.packet, decoded_of(c.packet), m.t, c.now)
  IN LogEntry(m.t, r.sent_dt, fromtimestamp(c.now), r.delay)

\* The text without its trailing newlines
LineOf(text) ==
  LET n == CHOOSE n \in 0..Len(text) :
             /\ \A m \in (n + 1)..Len(text) : text[m].k = "nl"
             /\ n = 0 \/ text[n].k # "nl"
  IN SubSeq(text, 1, n)

\* A file to which each of the texts was appended as one line
RECURSIVE Expected(_)
Expected(texts) ==
  IF texts = << >> THEN << >>
  ELSE Expected(SubSeq(texts, 1, Len(texts) - 1)) \o LineOf(texts[Len(texts)]) \o <<NL>>

\* C11: with a raw-packet trace configured, every packet that is not a
\* duplicate (and that can be serialised and written) is in the raw trace,
\* whether or not the port filter or the text test discards it afterwards.
EveryPacketTracedBeforeFiltering ==
  \A i \in DOMAIN calls :
    (/\ raw_packet_path
     /\ calls[i].outcome # "duplicate"
     /\ ~calls[i].rawFails
     /\ json_dumps_ok(calls[i].packet))
    => \E n \in DOMAIN rawlog : rawlog[n] = calls[i].packet

\* C12: a failure of the raw-trace write never leaves the handler, and the
\* packet's entry is appended as it is when the trace write succeeds.
TraceFailureSwallowed ==
  \A i \in DOMAIN calls :
    LET c == calls[i]
    IN (raw_packet_path /\ (c.rawFails \/ ~json_dumps_ok(c.packet)))
       => /\ c.outcome = "raised" => PassesFilters(c) /\ (ReconcileRaises(c) \/ c.logFails)
          /\ ReachesAppend(c) /\ ~c.logFails
               => /\ c.outcome = "logged"
                  /\ Appended(i) = 1
                  /\ log[c.lines] = EntryOf(c)
                  /\ appends[Len(appends)] = format_entry(EntryOf(c))

\* C12 witness: the trace write failed, nothing was traced and the entry of
\* the packet was appended.
WitnessTraceFailedEntryLogged ==
  \E i \in DOMAIN calls :
    /\ raw_packet_path
    /\ calls[i].rawFails
    /\ calls[i].outcome = "logged"
    /\ rawlog = << >>
    /\ log = <<EntryOf(calls[i])>>
    /\ line_count(output) = 1

\* C13: when the append to the main log fails, the handler raises: the
\* invocation does not return normally and nothing is written.
LogFailurePropagates ==
  \A i \in DOMAIN calls :
    (calls[i].logFails /\ ReachesAppend(calls[i]))
    => /\ calls[i].outcome = "raised"
       /\ Appended(i) = 0

\* C13 witness: the append failed for a loggable packet, the handler raised
\* and the log file is empty.
WitnessLogFailureRaised ==
  \E i \in DOMAIN calls :
    /\ calls[i].logFails
    /\ ReachesAppend(calls[i])
    /\ calls[i].outcome = "raised"
    /\ output = << >>
    /\ log = << >>

\* C14: the file is the texts appended so far, in order, each without its
\* trailing newlines and followed by exactly one newline (so earlier content
\* is never changed and equal texts are written again); when no text has a
\* newline inside, the file holds one line per call.
AppendOnlyExtends ==
  /\ output = Expected(appends)
  /\ (\A i \in DOMAIN appends : line_count(LineOf(appends[i])) = 0)
       => line_count(output) = Len(appends)

\* C14 witness: the same text, ending with two newlines, was appended twice
\* and the file holds it on two lines.
WitnessSameTextTwoLines ==
  /\ calls = << >>
  /\ appends = <<<<W(1), NL, NL>>, <<W(1), NL, NL>>>>
  /\ output = <<W(1), NL, W(1), NL>>

\* C15: the main log holds exactly one line per entry written.
EntryOccupiesOneLine == line_count(output) = Len(log)

(***************************************************************************)
(* Pinger: transmitted text and the loop.                                  *)
(***************************************************************************)
\* The keys of the fix-derived payload and of the enrichment map
KnownKeys ==
  {"lat", "lon", "hdop", "satellites", "fix_quality", "timestamp", "iso", "time", "date",
   "snr", "radio_snr"}

\* The signal readings send c found unavailable
UnavailableKeys(c) ==
  (IF c.signal.some THEN {} ELSE {"snr"}) \cup (IF c.radio_signal.some THEN {} ELSE {"radio_snr"})

\* Element i of the template of send c is a field, and one that renders
IsField(c, i) == c.template[i].k = "field"
FieldRenders(c, i) ==
  LET payload == extras(c.signal, c.radio_signal) @@ fix_payload(c.fix)
  IN /\ c.template[i].name \in KnownKeys
     /\ format_value(payload[c.template[i].name], c.template[i].spec).ok

\* The fields of the template of send c that name no known key
UnknownFields(c) == {i \in DOMAIN c.template : IsField(c, i) /\ c.template[i].name \notin KnownKeys}

\* The word "n/a"
NAWord == [k |-> "n/a", v |-> 0]

\* The latest event of the loop, and the one before it
LastEvent == IF events = << >> THEN "" ELSE events[Len(events)]
PrevEvent == IF Len(events) < 2 THEN "" ELSE events[Len(events) - 1]

\* C16: every transmitted text carries a tx= tag, whose epoch is the time of
\* the send.
EveryTransmissionTagged ==
  \A i \in DOMAIN sent :
    /\ HasTag(sent[i])
    /\ i = Len(sent) => FirstTag(sent[i]) = last_send.now

\* C17: when the listener handles the text the pinger transmitted, it writes
\* an entry whose sent_at is the time of the send.
RoundTripRecoversSendTime ==
  \A i \in DOMAIN calls :
    (last_send.outcome = "sent" /\ calls[i].packet = RadioPacket(last_send.text))
    => /\ calls[i].outcome = "logged"
       /\ log[calls[i].lines].sent_at = isoformat(fromtimestamp(last_send.now))

\* C18: when the template has a field that names no known key (and the
\* fields before the first such field render), send_fix raises an error that
\* names that key and transmits nothing.
UnknownKeyFailsNamingKey ==
  (/\ last_send.called
   /\ UnknownFields(last_send) # {}
   /\ \A i \in DOMAIN last_send.template :
        (IsField(last_send, i) /\ \A j \in UnknownFields(last_send) : i < j) => FieldRenders(last_send, i))
  => /\ last_send.outcome = "raised"
     /\ last_send.error = "ValueError"
     /\ \E i \in UnknownFields(last_send) :
          /\ \A j \in UnknownFields(last_send) : i <= j
          /\ last_send.key = last_send.template[i].name
     /\ sent = << >>

\* C18 witness: send_fix was called with "unknown {missing}", raised naming
\* the key missing and transmitted nothing.
WitnessUnknownKeyNamed ==
  /\ last_send.called
  /\ last_send.template = TemplateUnknownKey
  /\ last_send.outcome = "raised"
  /\ last_send.key = "missing"
  /\ sent = << >>

\* C19: a field of an unavailable signal reading renders as the word n/a
\* under every specifier, and send_fix does not raise because of it: when
\* all other fields render and the radio accepts the text, it is sent.
UnavailableSignalRendersNA ==
  last_send.called =>
    /\ last_send.outcome = "sent" =>
         \A i \in DOMAIN last_send.template :
           (IsField(last_send, i) /\ last_send.template[i].name \in UnavailableKeys(last_send))
           => last_send.text[i] = NAWord
    /\ (/\ last_send.error # "sendText"
        /\ \A i \in DOMAIN last_send.template :
             (IsField(last_send, i) /\ last_send.template[i].name \notin UnavailableKeys(last_send))
             => FieldRenders(last_send, i))
       => last_send.outcome = "sent"

\* C19 witness: "sig {snr:.1f} radio {radio_snr}" was sent with neither
\* reading available, as "sig n/a radio n/a".
WitnessMissingSignalSent ==
  /\ last_send.called
  /\ last_send.template = TemplateSignal
  /\ ~last_send.signal.some
  /\ ~last_send.radio_signal.some
  /\ last_send.outcome = "sent"
  /\ sent = <<<<W(2), WS, NAWord, WS, W(3), WS, NAWord>>>>

\* C20: the loop is left only when reading the GPS device fails, never on a
\* fix timeout or a failed send: after a timeout it is acquiring again, and
\* after a failed send it comes to acquire again; a send happens only right
\* after a fix was acquired (hence once per fix), and is followed by the
\* sleep when an interval is configured.
PingerLoopKeepsRunning ==
  /\ [](loop_pc = "terminated" => LastEvent = "error")
  /\ [](LastEvent = "timeout" => loop_pc = "acquire")
  /\ (LastEvent = "send_failed" ~> loop_pc = "acquire")
  /\ [](LastEvent \in {"sent", "send_failed"} => PrevEvent = "fix")
  /\ [](loop_pc = "send" => LastEvent = "fix" /\ loop_fix.some)
  /\ [](LastEvent = "slept" => PrevEvent \in {"sent", "send_failed"})
  /\ []((LastEvent \in {"sent", "send_failed"} /\ config.send_interval_seconds > 0) => loop_pc = "sleep")

\* C20 witness: a send failed on a template error, the loop slept, the next
\* fix acquisition timed out, and the loop is acquiring again.
WitnessLoopSurvivesErrors ==
  /\ Len(events) >= 3
  /\ Latest(events, 3) = <<"send_failed", "slept", "timeout">>
  /\ last_send.error = "ValueError"
  /\ loop_pc = "acquire"

(***************************************************************************)
(* The sources of a packet's text, in the order of precedence.  A source   *)
(* is [hit, text]: hit tells whether the search stops at it.               *)
(*   1  the decoded area is itself text or bytes                           *)
(*   2  the decoded dict has a text key                                    *)
(*   3  its payload (or else data) key holds text or bytes                 *)
(*   4  its payload (or else data) key holds a dict with a text key, or    *)
(*      with bytes under payload or data                                   *)
(***************************************************************************)
Source(hit, text) == [hit |-> hit, text |-> text]

DecodedSources(packet) ==
  LET decoded == packet.decoded
      inner == Or(decoded.payload, decoded.data)
  IN << Source(decoded.k \in {"str", "bytes"} /\ Len(decoded.t) > 0,
               IF decoded.k = "bytes" THEN Some(decode_utf8(decoded.t)) ELSE Some(decoded.t)),
        Source(decoded.k = "dict" /\ decoded.text.k # "none", Some(str(decoded.text))),
        Source(decoded.k = "dict" /\ inner.k \in {"str", "bytes"} /\ Len(inner.t) > 0,
               IF inner.k = "bytes" THEN Some(decode_utf8(inner.t)) ELSE Some(inner.t)),
        Source(decoded.k = "dict" /\ inner.k = "dict" /\ TruthyText(decode_payload(inner)),
               decode_payload(inner)) >>

\* The text of the packet's top-level payload or data
TopLevelText(packet) == decode_payload(Or(packet.payload, packet.data))

\* C27: the text of a packet is that of the first source of the decoded
\* area that succeeds, in the order 1..4; the top-level payload or data is
\* used only when none of them succeeds; a packet with both a decoded text
\* and a top-level payload is logged with the decoded text.
ExtractionFollowsPrecedence ==
  \A n \in DOMAIN calls :
    LET packet == calls[n].packet
        sources == DecodedSources(packet)
        message == extract_message_text(packet)
    IN /\ \A i \in DOMAIN sources :
            (sources[i].hit /\ \A j \in 1..(i - 1) : ~sources[j].hit) => message = sources[i].text
       /\ (\A i \in DOMAIN sources : ~sources[i].hit) => message = TopLevelText(packet)
       /\ (/\ calls[n].outcome = "logged"
           /\ packet.decoded.k = "dict"
           /\ packet.decoded.text.k = "str"
           /\ Truthy(packet.payload))
          => log[Len(log)].message = packet.decoded.text.t

\* C27 witness: a packet with decoded text "hello" and another text in its
\* top-level payload was logged as "hello".
WitnessDecodedTextWins ==
  /\ Len(calls) = 1
  /\ calls[1].outcome = "logged"
  /\ calls[1].packet.decoded.text = Str(hello)
  /\ calls[1].packet.payload = BytesVal(<<W(4)>>)
  /\ TopLevelText(calls[1].packet) = Some(<<W(4)>>)
  /\ log[1].message = hello

\* The sent-time metadata of the packet yields no time
UnusableMetadata(packet) == ~parse_sent_time(sent_raw_of(packet, decoded_of(packet))).some

\* C28: whatever the sent-time metadata of a packet is, a text packet whose
\* text has no tx= tag is handled without raising and its entry is appended
\* (the write itself succeeding); when the metadata yields no time, sent_at
\* is the time of the trailing time token, or n/a.
MetadataNeverFailsHandler ==
  \A n \in DOMAIN calls :
    LET c == calls[n]
        m == extract_message_text(c.packet)
    IN (PassesFilters(c) /\ ~parse_tx_epoch(m.t).some /\ ~c.logFails)
       => /\ c.outcome = "logged"
          /\ UnusableMetadata(c.packet)
             => LET tail == parse_time_from_message_tail(m.t, fromtimestamp(c.now))
                IN log[Len(log)].sent_at = IF tail.some THEN isoformat(tail) ELSE NA

\* C30: in every entry written, delay_s is "n/a" exactly when sent_at is
\* "n/a"; when sent_at is a timestamp, delay_s is a number (rendered with
\* three decimals).
DelayAbsentIffSentAtAbsent ==
  \A i \in DOMAIN log :
    /\ log[i].delay_s = NoDelay <=> log[i].sent_at = NA
    /\ log[i].sent_at # NA => log[i].sent_at.k = "iso" /\ log[i].delay_s.k = "num"

\* C30 witness: an entry with a sent_at taken from the packet's metadata and
\* a delay of 1, written for a packet handled at time 3.
WitnessEntryWithSentAtAndDelay ==
  /\ Len(calls) = 1
  /\ calls[1].outcome = "logged"
  /\ calls[1].now = 3
  /\ calls[1].packet.decoded.timestamp = NumTS(2)
  /\ log[1].sent_at = isoformat(fromtimestamp(2))
  /\ log[1].delay_s = Delay(1)

\* C29: two packets whose message texts differ have different fingerprints,
\* so the later one is never dropped as a duplicate of the earlier one.
DifferentTextDifferentFingerprint ==
  \A i \in DOMAIN calls : \A j \in DOMAIN calls :
    LET mi == extract_message_text(calls[i].packet)
        mj == extract_message_text(calls[j].packet)
    IN (i < j /\ mi.some /\ mj.some /\ mi.t # mj.t)
       => /\ calls[i].key # calls[j].key
          /\ calls[j].outcome # "duplicate"

\* The message text holds a "GPS <lat>,<lon>" token
HasGpsToken(text) == \E i \in DOMAIN text : text[i].k = "gps"

\* The first "GPS <lat>,<lon>" token of the text
GpsToken(text) == SelectSeq(text, LAMBDA tok : tok.k = "gps")[1]

\* What the fields of a written entry say
WrittenTime(label) == IF label = NA THEN NoDt ELSE Dt(label.aware, label.t)
WrittenDelay(label) == IF label = NoDelay THEN None ELSE Just(label.v)

\* The message the mapper is to read back from a written entry
MessageOf(entry) ==
  GpsMessage(GpsToken(entry.message).v, -GpsToken(entry.message).v,
             WrittenTime(entry.sent_at), WrittenTime(entry.received_at),
             WrittenDelay(entry.delay_s), None, None)

RECURSIVE MessagesOf(_)
MessagesOf(entries) ==
  IF entries = << >> THEN << >>
  ELSE (IF HasGpsToken(Head(entries).message) THEN <<MessageOf(Head(entries))>> ELSE << >>)
       \o MessagesOf(Tail(entries))

\* C26: the text of every entry the listener wrote whose message holds a
\* GPS token parses to that token's coordinates and to the sent_at,
\* received_at and delay of the entry's fields ("n/a" as absent); the text
\* of an entry without a GPS token parses to nothing; and reading the log
\* file gives exactly the messages of the entries with a GPS token, in order.
LogLineRoundTrip ==
  /\ \A i \in DOMAIN log :
       LET parsed == parse_message_line(format_entry(log[i]))
       IN IF HasGpsToken(log[i].message)
          THEN parsed.some /\ parsed.msg = MessageOf(log[i])
          ELSE ~parsed.some
  /\ messages.read => messages.list = MessagesOf(log)

\* start() has returned or an exception has left it, and the with block of
\* main(), if any, has been left too
StartExited ==
  \/ caller = "direct" /\ start_pc \in {"returned", "raised"}
  \/ start_pc = "exited"

\* C21: whenever start() has exited after the interface was opened, the
\* interface has been closed and no pubsub subscription is left.
StartReleasesOnExit ==
  (StartExited /\ interface # "none") => (interface = "closed" /\ subscriptions = {})

\* Once the stop event is set, start() eventually leaves its wait loop and exits.
StopEventEndsStart == stop_event ~> start_pc \in {"returned", "raised", "exited"}

\* C22: when _run_loop has exited, no GPS serial port and no radio
\* connection that was opened is still open.
PingerReleasesOnExit ==
  run_pc = "exited" => (gps_serial # "open" /\ radio_interface # "open")

\* C25: the timestamp of a returned fix is the sentence's time of day on
\* the current UTC date, a day earlier exactly when that is more than one
\* minute after now, and now when the sentence has no time of day; it is
\* never more than a minute after now and never more than a day before now.
TimestampWithinADay ==
  (nmea.called /\ nmea.result.some) =>
    LET now == nmea.now
        time == nmea.sentence.time
        today == (now \div DayLen) * DayLen
        timestamp == nmea.result.fix.timestamp
    IN /\ time.k # "val" => timestamp = now
       /\ (time.k = "val" /\ today + time.v > now + Minute) => timestamp = today + time.v - DayLen
       /\ (time.k = "val" /\ today + time.v <= now + Minute) => timestamp = today + time.v
       /\ timestamp <= now + Minute
       /\ timestamp >= now - DayLen

\* C25 witness: just after midnight a sentence timed at the end of the day
\* gets the previous day's date.
WitnessRolledBackOneDay ==
  /\ nmea.called
  /\ nmea.result.some
  /\ nmea.now = DayLen
  /\ nmea.sentence.time = Val(DayLen - 1)
  /\ nmea.result.fix.timestamp = DayLen - 1

\* C23: a well-formed sentence whose status flag is V, or whose fix-quality
\* field is 0, yields no fix.
InvalidSentenceYieldsNoFix ==
  (/\ nmea.called
   /\ nmea.sentence.ok
   /\ \/ status_upper(nmea.sentence.status) = "V"
      \/ nmea.sentence.qual = Val(0))
  => ~nmea.result.some

\* The field holds no coordinate
NoCoordinate(field) == field.k \in {"absent", "empty"}

\* C24: a sentence whose latitude or longitude field is absent or empty
\* yields no fix.
MissingCoordinateYieldsNoFix ==
  (nmea.called /\ (NoCoordinate(nmea.sentence.lat) \/ NoCoordinate(nmea.sentence.lon)))
  => ~nmea.result.some

====
